---- MODULE Spec2Model ----
(***************************************************************************)
(* Bounded content aggregation and truncation in mcp-server-azure-devops:  *)
(*   - getPullRequestChanges / listCommits: per-file diffs under a         *)
(*     per-patch limit and an aggregate patch budget, with the per-entry   *)
(*     blob fetches running concurrently (Promise.all over an async map);  *)
(*   - getFileContent: line window, per-line and total-size truncation;    *)
(*   - searchCode content enrichment: truncateFileContent.                 *)
(*                                                                         *)
(* A text is modelled by its line structure: the sequence of the lengths   *)
(* of its lines (the string split at '\n'); the empty string is <<0>>.     *)
(* A line of a file is a record [id, len, cut]: id is the line's position  *)
(* in the file (it stands for the line's characters), len its length, cut  *)
(* whether the per-line truncator shortened it.                            *)
(***************************************************************************)
EXTENDS Integers, Sequences, FiniteSets, TLC

\* ------------------------------------------------------------------------
\* Program constants
\* ------------------------------------------------------------------------
MAX_PATCH_LENGTH == 10000
MAX_TOTAL_PATCH_SIZE == 50000
MAX_LINES == 1000
MAX_CHARACTERS == 20000
MAX_LINE_LENGTH == 1000
MAX_CONTENT_CHARACTERS == 20000
\* length of '... [truncated - patch exceeded 10000 characters]' (the marker
\* without its leading newline)
PatchMarkerLen == 49
\* length of '[omitted - total patch size limit reached]'
OmittedPlaceholderLen == 42
\* length of ' [truncated]'
LineMarkerLen == 12
\* length of '[content truncated due to size limits]'
ContentMarkerLen == 38

\* ------------------------------------------------------------------------
\* Bounds of the model
\* ------------------------------------------------------------------------
\* longest change list whose entries all carry the same kind of patch
MaxEntries == 10
\* longest change list with entries of mixed kinds
MaxMixed == 2
\* length of a short line / a small patch
ShortLen == 5
\* number of lines of a small file
SmallFile == 25
\* what a long file has beyond MAX_LINES lines, a long line beyond MAX_LINE_LENGTH
ExtraLines == 500
\* largest number of results the search service answers with
MaxSearchResults == 12
\* largest change-type code a change entry carries
MaxCode == 8200
\* number of cut patches that use up the total budget
BudgetEntries == 5
\* largest number of repositories of a project
MaxRepos == 3

\* chunks delivered by one stream before it ends or fails
MaxChunks == 3
\* relations of a work item
MaxRelations == 3
\* updates other clients make to the work item during one link call
MaxOtherUpdates == 2

Max(a, b) == IF a >= b THEN a ELSE b
Min(a, b) == IF a <= b THEN a ELSE b

\* ------------------------------------------------------------------------
\* Strings as line-length sequences
\* ------------------------------------------------------------------------
RECURSIVE SumLens(_)
SumLens(t) == IF t = <<>> THEN 0 ELSE t[1] + SumLens(Tail(t))

\* String.length of a text
TextLen(t) == SumLens(t) + Len(t) - 1

\* String.substring(0, n) of a text, n >= 0
RECURSIVE Substring(_, _)
Substring(t, n) ==
    IF t[1] >= n THEN <<n>>
    ELSE IF Len(t) = 1 THEN <<t[1]>>
    ELSE <<t[1]>> \o Substring(Tail(t), n - t[1] - 1)

\* string concatenation a + b
Concat(a, b) ==
    SubSeq(a, 1, Len(a) - 1) \o <<a[Len(a)] + b[1]>> \o Tail(b)

\* '\n... [truncated - patch exceeded ' + MAX_PATCH_LENGTH + ' characters]'
PatchMarker == <<0, PatchMarkerLen>>

\* a patch of exactly MAX_PATCH_LENGTH characters cut as well
truncatePatchStrict(patch) ==
    IF TextLen(patch) < MAX_PATCH_LENGTH
    THEN [patch |-> patch, truncated |-> FALSE]
    ELSE [patch |-> Concat(Substring(patch, MAX_PATCH_LENGTH), PatchMarker),
          truncated |-> TRUE]

truncatePatch(patch) ==
    IF TextLen(patch) <= MAX_PATCH_LENGTH
    THEN [patch |-> patch, truncated |-> FALSE]
    ELSE [patch |-> Concat(Substring(patch, MAX_PATCH_LENGTH), PatchMarker),
          truncated |-> TRUE]

\* VersionControlChangeType codes of the lookup table
ChangeTypeTable ==
    [c \in {0, 1, 2, 4, 8, 16, 32, 64, 128, 256, 512, 1024, 2048, 4096, 8191} |->
        CASE c = 0 -> "none" [] c = 1 -> "add" [] c = 2 -> "edit"
          [] c = 4 -> "encoding" [] c = 8 -> "rename" [] c = 16 -> "delete"
          [] c = 32 -> "undelete" [] c = 64 -> "branch" [] c = 128 -> "merge"
          [] c = 256 -> "lock" [] c = 512 -> "rollback"
          [] c = 1024 -> "sourceRename" [] c = 2048 -> "targetRename"
          [] c = 4096 -> "property" [] c = 8191 -> "all"]

\* the code -1 stands for an undefined changeType
Undefined == -1

\* an undefined changeType read as VersionControlChangeType.None
getChangeTypeNameOrNone(changeType) ==
    IF changeType = Undefined THEN ChangeTypeTable[0]
    ELSE IF changeType \in DOMAIN ChangeTypeTable THEN ChangeTypeTable[changeType]
    ELSE "unknown"

getChangeTypeName(changeType) ==
    IF changeType = Undefined THEN "unknown"
    ELSE IF changeType \in DOMAIN ChangeTypeTable THEN ChangeTypeTable[changeType]
    ELSE "unknown"

\* ------------------------------------------------------------------------
\* Change entries returned by the remote
\*   itemPath, originalPath : 0 stands for an absent (or empty) path
\*   oldId, newId           : whether item.originalObjectId / item.objectId is set
\*   diff                   : the text createTwoFilesPatch yields for the blobs
\*   readFails              : whether reading a blob of this entry fails
\* ------------------------------------------------------------------------
EntryKinds == {"edit", "big", "small", "add", "delete", "bare", "fail"}
UniformKinds == {"edit", "big"}

Entry(kind, i) ==
    [itemPath     |-> IF kind = "delete" THEN 0 ELSE i,
     originalPath |-> IF kind \in {"delete", "big"} THEN 100 + i ELSE 0,
     changeType   |-> CASE kind = "add" -> 1
                        [] kind = "delete" -> 16
                        [] kind = "bare" -> Undefined
                        [] kind = "small" -> 3
                        [] OTHER -> 2,
     oldId        |-> kind \notin {"add", "bare"},
     newId        |-> kind \notin {"delete", "bare"},
     diff         |-> CASE kind = "edit" -> <<2999, 3000>>
                        [] kind = "big" -> <<MAX_PATCH_LENGTH \div 2, MAX_PATCH_LENGTH \div 2>>
                        [] kind = "add" -> <<MAX_PATCH_LENGTH \div 2 - 1, MAX_PATCH_LENGTH \div 2>>
                        [] kind = "delete" -> <<ShortLen, 3 * MAX_PATCH_LENGTH>>
                        [] OTHER -> <<ShortLen, ShortLen>>,
     readFails    |-> kind = "fail"]

UniformLists ==
    { [i \in 1..n |-> Entry(k, i)] : n \in 0..MaxEntries, k \in UniformKinds }

MixedLists ==
    UNION { { [i \in 1..n |-> Entry(ks[i], i)] : ks \in [1..n -> EntryKinds] } :
            n \in 1..MaxMixed }

ChangeLists == UniformLists \cup MixedLists

\* what the remote returns for one call: a sequence of commits, each with its
\* change list; a pull request has one change list (the latest iteration's)
Commit(id, changes) == [commitId |-> id, changes |-> changes]

PRRemotes == { <<Commit(1, l)>> : l \in ChangeLists }

SingleLists == { <<Entry(k, 1)>> : k \in EntryKinds }

\* a commit id of 0 stands for a commit without commitId
LCRemotes ==
    {<<>>}
    \cup { <<Commit(1, l)>> : l \in ChangeLists }
    \cup { <<Commit(1, l1), Commit(2, l2)>> : l1 \in UniformLists, l2 \in SingleLists }
    \cup { <<Commit(0, l1), Commit(2, l2)>> : l1, l2 \in SingleLists }
    \cup { <<Commit(1, l1), Commit(0, l2), Commit(3, l1)>> : l1, l2 \in SingleLists }

VARIABLES
    op,                 \* "pr": getPullRequestChanges, "lc": listCommits
    includeDiffs,       \* options.includeDiffs
    remote,             \* what the remote holds for this call
    fault,              \* how resolving the change list fails, "none" if it does not
    pc,                 \* position of the call
    ci,                 \* listCommits: index of the commit being processed
    changeEntries,      \* the change list being mapped
    task,               \* per entry: state of its async callback
    results,            \* per entry: the value its promise resolved with
    totalPatchSize,
    truncatedPatchCount,
    omittedPatchCount,
    commitsWithContent,
    response,           \* the value the call returned, or the error it threw
    fetchLog,           \* the getBlobContent calls issued: <<commit, entry, side>>
    gates,              \* history: what each entry's budget check read: [c, i, seen]
    reordered           \* history: some entry resolved before an earlier one did

bvars == <<op, includeDiffs, remote, fault, pc, ci, changeEntries, task, results,
           totalPatchSize, truncatedPatchCount, omittedPatchCount,
           commitsWithContent, response, fetchLog, gates, reordered>>

VARIABLES
    fop,        \* "file": getFileContent, "search": enrichment of one search result
    frequest,   \* the file at the remote, the requested window, what the remote does
    fpc,        \* position of the call
    fresponse   \* the response of getFileContent, the enriched search result, or the error

fvars == <<fop, frequest, fpc, fresponse>>

VARIABLES
    sreq,       \* searchCode: the options and what the search service answers
    spc,        \* position of the call
    stop,       \* the $top sent to the search service
    stasks      \* per returned result: state of its content callback

svars == <<sreq, spc, stop, stasks>>

VARIABLES
    fn,         \* the helper function applied on its own
    arg,        \* its argument
    out         \* its result, NoResponse before it returned

pvars == <<fn, arg, out>>

VARIABLES
    calls,      \* two interleaved batch calls: per call its own state, <<>> when idle
    stream,     \* one stream-to-text conversion: the stream, its handle, the promise
    wi,         \* the work item at the remote: its relations, now and at the start
    lk          \* one linkBranchToWorkItem / linkCommitToWorkItem call

uvars == <<calls, stream, wi, lk>>

vars == <<bvars, fvars, svars, pvars, uvars>>

\* ------------------------------------------------------------------------
\* Per-entry results
\* ------------------------------------------------------------------------
\* entry.item?.path || entry.originalPath || ''
DisplayPath(e) == IF e.itemPath # 0 THEN e.itemPath ELSE e.originalPath

totalBudgetExceeded(total) == total >= MAX_TOTAL_PATCH_SIZE

\* a patch is [omitted, text]: omitted tells the placeholder
\* '[omitted - total patch size limit reached]' from a diff text
Placeholder(e) ==
    [path |-> DisplayPath(e), changeType |-> getChangeTypeName(e.changeType),
     patch |-> [omitted |-> TRUE, text |-> <<OmittedPlaceholderLen>>],
     truncated |-> "true"]

\* createTwoFilesPatch(entry.originalPath || path, path, oldContent, newContent)
createTwoFilesPatch(e) == e.diff

\* the entry emitted once both blobs are read; truncated || undefined
DiffResult(e) ==
    LET t == truncatePatch(createTwoFilesPatch(e)) IN
    [path |-> DisplayPath(e), changeType |-> getChangeTypeName(e.changeType),
     patch |-> [omitted |-> FALSE, text |-> t.patch],
     truncated |-> IF t.truncated THEN "true" ELSE "undefined"]

\* the entry with its patch although no diff was asked for
NoDiffResultWithPatch(e) == DiffResult(e)

NoDiffResult(e) ==
    [path |-> DisplayPath(e), changeType |-> getChangeTypeName(e.changeType)]

\* the slot of a promise that has not resolved
Unset == [unset |-> TRUE]

\* getBlobText issues getBlobContent only for an object id that is set
BlobCalls(c, i, e) ==
    (IF e.oldId THEN {<<c, i, "old">>} ELSE {})
    \cup (IF e.newId THEN {<<c, i, "new">>} ELSE {})

\* a map whose budget starts afresh with every change list: every entry is fetched
MapEntriesFresh(entries, i, c, total, acc) ==
    [acc EXCEPT !.task = @ \o [k \in 1..Len(entries) |-> "fetching"],
                !.results = @ \o [k \in 1..Len(entries) |-> Unset],
                !.calls = @ \cup UNION {BlobCalls(c, k, entries[k]) : k \in 1..Len(entries)},
                !.gates = @ \o [k \in 1..Len(entries) |-> [c |-> c, i |-> k, seen |-> 0]]]

\* The synchronous part of changeEntries.map(async (entry) => ...): every
\* callback runs up to its first await before any awaited promise settles, in
\* list order. acc = [task, results, omitted, calls, gates].
RECURSIVE MapEntries(_, _, _, _, _)
MapEntries(entries, i, c, total, acc) ==
    IF i > Len(entries) THEN acc
    ELSE LET e == entries[i] IN
         IF totalBudgetExceeded(total)
         THEN MapEntries(entries, i + 1, c, total,
                  [acc EXCEPT !.omitted = @ + 1,
                              !.task = Append(@, "resolved"),
                              !.results = Append(@, Placeholder(e)),
                              !.gates = Append(@, [c |-> c, i |-> i, seen |-> total])])
         ELSE MapEntries(entries, i + 1, c, total,
                  [acc EXCEPT !.task = Append(@, "fetching"),
                              !.results = Append(@, Unset),
                              !.calls = @ \cup BlobCalls(c, i, e),
                              !.gates = Append(@, [c |-> c, i |-> i, seen |-> total])])

MapStart(omitted, fetches, checks) ==
    [task |-> <<>>, results |-> <<>>, omitted |-> omitted, calls |-> fetches,
     gates |-> checks]

\* a join by arrival order: the value goes to the first slot still open
SettleByArrival(res, i, v) ==
    LET k == CHOOSE k \in 1..Len(res) :
                 res[k] = Unset /\ \A m \in 1..(k - 1) : res[m] # Unset
    IN [res EXCEPT ![k] = v]

\* a join by arrival order from the end: the value goes to the last slot still open
SettleLastOpen(res, i, v) ==
    LET k == CHOOSE k \in 1..Len(res) :
                 res[k] = Unset /\ \A m \in (k + 1)..Len(res) : res[m] # Unset
    IN [res EXCEPT ![k] = v]

\* Promise.all: the value of the i-th promise goes to the i-th slot
PromiseAllSettle(res, i, v) == [res EXCEPT ![i] = v]

\* the two counters taken for one another
BuildNoteSwapped(truncatedCount, omittedCount) ==
    (IF omittedCount > 0
       THEN <<[what |-> "truncated", count |-> omittedCount, limit |-> MAX_PATCH_LENGTH]>>
       ELSE <<>>)
    \o (IF truncatedCount > 0
       THEN <<[what |-> "omitted", count |-> truncatedCount, limit |-> MAX_TOTAL_PATCH_SIZE]>>
       ELSE <<>>)

\* the truncation note: the sequence of its parts, <<>> when undefined
BuildNote(truncatedCount, omittedCount) ==
    (IF truncatedCount > 0
       THEN <<[what |-> "truncated", count |-> truncatedCount, limit |-> MAX_PATCH_LENGTH]>>
       ELSE <<>>)
    \o (IF omittedCount > 0
       THEN <<[what |-> "omitted", count |-> omittedCount, limit |-> MAX_TOTAL_PATCH_SIZE]>>
       ELSE <<>>)

NoResponse == [kind |-> "none"]
Thrown(class) == [kind |-> "error", class |-> class]

\* ------------------------------------------------------------------------
\* getPullRequestChanges and listCommits
\* ------------------------------------------------------------------------
Faults(o) == IF o = "pr" THEN {"none", "noIterations", "remote"}
             ELSE {"none", "remote", "changes"}

InitBatch ==
    /\ op \in {"pr", "lc"}
    /\ includeDiffs \in BOOLEAN
    /\ remote \in (IF op = "pr" THEN PRRemotes ELSE LCRemotes)
    /\ fault \in Faults(op)
    /\ pc = "start"
    /\ ci = 0
    /\ changeEntries = <<>>
    /\ task = <<>>
    /\ results = <<>>
    /\ totalPatchSize = 0
    /\ truncatedPatchCount = 0
    /\ omittedPatchCount = 0
    /\ commitsWithContent = <<>>
    /\ response = NoResponse
    /\ fetchLog = {}
    /\ gates = <<>>
    /\ reordered = FALSE
    /\ fop = "none" /\ frequest = NoResponse /\ fpc = "idle" /\ fresponse = NoResponse
    /\ sreq = NoResponse /\ spc = "idle" /\ stop = 0 /\ stasks = <<>>
    /\ fn = "none" /\ arg = 0 /\ out = NoResponse
    /\ calls = <<>> /\ stream = NoResponse /\ wi = NoResponse /\ lk = NoResponse

\* the catch clause: an error that is no AzureDevOpsError is rethrown as a
\* plain Error('Failed to ...')
Fail(class) ==
    /\ pc' = "failed"
    /\ response' = Thrown(class)

NoDiffFiles(entries) == [i \in 1..Len(entries) |-> NoDiffResult(entries[i])]

\* the map of one change list with includeDiffs set, up to the await of Promise.all
StartMap(entries, c) ==
    LET m == MapEntries(entries, 1, c, totalPatchSize,
                        MapStart(omittedPatchCount, fetchLog, gates)) IN
    /\ changeEntries' = entries
    /\ task' = m.task
    /\ results' = m.results
    /\ omittedPatchCount' = m.omitted
    /\ fetchLog' = m.calls
    /\ gates' = m.gates

\* the continuation of one entry's callback without the addition to the budget
FinishEntryNoAdd(i) ==
    LET r == DiffResult(changeEntries[i]) IN
    /\ truncatedPatchCount' =
           truncatedPatchCount + (IF r.truncated = "true" THEN 1 ELSE 0)
    /\ totalPatchSize' = totalPatchSize
    /\ results' = PromiseAllSettle(results, i, r)
    /\ task' = [task EXCEPT ![i] = "resolved"]
    /\ reordered' = (reordered \/ \E k \in 1..(i - 1) : task[k] = "fetching")

\* the continuation of one entry's callback after both blobs are read
FinishEntry(i) ==
    LET r == DiffResult(changeEntries[i]) IN
    /\ truncatedPatchCount' =
           truncatedPatchCount + (IF r.truncated = "true" THEN 1 ELSE 0)
    /\ totalPatchSize' = totalPatchSize + TextLen(r.patch.text)
    /\ results' = PromiseAllSettle(results, i, r)
    /\ task' = [task EXCEPT ![i] = "resolved"]
    /\ reordered' = (reordered \/ \E k \in 1..(i - 1) : task[k] = "fetching")

CanRead(e) == ~(e.readFails /\ (e.oldId \/ e.newId))

AllResolved == \A i \in 1..Len(task) : task[i] = "resolved"

PRStart ==
    /\ op = "pr" /\ pc = "start"
    /\ IF fault = "noIterations"
       THEN /\ Fail("AzureDevOpsError")
            /\ UNCHANGED <<changeEntries, task, results, omittedPatchCount, fetchLog, gates>>
       ELSE IF fault = "remote"
       THEN /\ Fail("Error")
            /\ UNCHANGED <<changeEntries, task, results, omittedPatchCount, fetchLog, gates>>
       ELSE IF includeDiffs
       THEN /\ StartMap(remote[1].changes, 1)
            /\ pc' = "fetching"
            /\ UNCHANGED response
       ELSE /\ changeEntries' = remote[1].changes
            /\ response' = [kind |-> "ok",
                            files |-> NoDiffFiles(remote[1].changes),
                            truncationNote |-> <<>>]
            /\ pc' = "done"
            /\ UNCHANGED <<task, results, omittedPatchCount, fetchLog, gates>>
    /\ UNCHANGED <<op, includeDiffs, remote, fault, ci, totalPatchSize,
                   truncatedPatchCount, commitsWithContent>>
    /\ UNCHANGED reordered
    /\ UNCHANGED <<fvars, svars, pvars, uvars>>

PRFetchDone(i) ==
    /\ op = "pr" /\ pc = "fetching"
    /\ task[i] = "fetching"
    /\ CanRead(changeEntries[i])
    /\ FinishEntry(i)
    /\ UNCHANGED <<op, includeDiffs, remote, fault, pc, ci, changeEntries,
                   omittedPatchCount, commitsWithContent, response, fetchLog, gates>>
    /\ UNCHANGED <<fvars, svars, pvars, uvars>>

PRFetchFail(i) ==
    /\ op = "pr" /\ pc = "fetching"
    /\ task[i] = "fetching"
    /\ ~CanRead(changeEntries[i])
    /\ task' = [task EXCEPT ![i] = "rejected"]
    /\ Fail("Error")
    /\ UNCHANGED <<op, includeDiffs, remote, fault, ci, changeEntries, results,
                   totalPatchSize, truncatedPatchCount, omittedPatchCount,
                   commitsWithContent, fetchLog, gates>>
    /\ UNCHANGED reordered
    /\ UNCHANGED <<fvars, svars, pvars, uvars>>

PRReturn ==
    /\ op = "pr" /\ pc = "fetching"
    /\ AllResolved
    /\ response' = [kind |-> "ok",
                    files |-> results,
                    truncationNote |-> BuildNote(truncatedPatchCount, omittedPatchCount)]
    /\ pc' = "done"
    /\ UNCHANGED <<op, includeDiffs, remote, fault, ci, changeEntries, task, results,
                   totalPatchSize, truncatedPatchCount, omittedPatchCount,
                   commitsWithContent, fetchLog, gates>>
    /\ UNCHANGED reordered
    /\ UNCHANGED <<fvars, svars, pvars, uvars>>

\* for (const commit of commits): the next commit at or after j that has a
\* commitId, Len(remote) + 1 when there is none
RECURSIVE NextCommit(_)
NextCommit(j) ==
    IF j > Len(remote) THEN j
    ELSE IF remote[j].commitId = 0 THEN NextCommit(j + 1)
    ELSE j

\* the loop goes on with commit j, or ends and the call returns
Advance(cwc, j) ==
    IF NextCommit(j) > Len(remote)
    THEN /\ response' = [kind |-> "ok",
                         commits |-> cwc,
                         truncationNote |-> BuildNote(truncatedPatchCount, omittedPatchCount)]
         /\ pc' = "done"
         /\ ci' = ci
    ELSE /\ pc' = "commit"
         /\ ci' = NextCommit(j)
         /\ UNCHANGED response

LCStart ==
    /\ op = "lc" /\ pc = "start"
    /\ IF fault = "remote"
       THEN Fail("Error") /\ UNCHANGED ci
       ELSE IF Len(remote) = 0
       THEN /\ response' = [kind |-> "ok", commits |-> <<>>]
            /\ pc' = "done"
            /\ UNCHANGED ci
       ELSE Advance(<<>>, 1)
    /\ UNCHANGED <<op, includeDiffs, remote, fault, changeEntries, task, results,
                   totalPatchSize, truncatedPatchCount, omittedPatchCount,
                   commitsWithContent, fetchLog, gates>>
    /\ UNCHANGED reordered
    /\ UNCHANGED <<fvars, svars, pvars, uvars>>

CommitWithContent(j, files) == [commitId |-> remote[j].commitId, files |-> files]

LCGetChanges ==
    /\ op = "lc" /\ pc = "commit"
    /\ IF fault = "changes"
       THEN /\ Fail("Error")
            /\ UNCHANGED <<ci, changeEntries, task, results, omittedPatchCount,
                           commitsWithContent, fetchLog, gates>>
       ELSE IF includeDiffs
       THEN /\ StartMap(remote[ci].changes, ci)
            /\ pc' = "fetching"
            /\ UNCHANGED <<ci, commitsWithContent, response>>
       ELSE /\ changeEntries' = remote[ci].changes
            /\ commitsWithContent' =
                   Append(commitsWithContent,
                          CommitWithContent(ci, NoDiffFiles(remote[ci].changes)))
            /\ UNCHANGED <<task, results, omittedPatchCount, fetchLog, gates>>
            /\ Advance(commitsWithContent', ci + 1)
    /\ UNCHANGED <<op, includeDiffs, remote, fault, totalPatchSize, truncatedPatchCount>>
    /\ UNCHANGED reordered
    /\ UNCHANGED <<fvars, svars, pvars, uvars>>

LCFetchDone(i) ==
    /\ op = "lc" /\ pc = "fetching"
    /\ task[i] = "fetching"
    /\ CanRead(changeEntries[i])
    /\ FinishEntry(i)
    /\ UNCHANGED <<op, includeDiffs, remote, fault, pc, ci, changeEntries,
                   omittedPatchCount, commitsWithContent, response, fetchLog, gates>>
    /\ UNCHANGED <<fvars, svars, pvars, uvars>>

LCFetchFail(i) ==
    /\ op = "lc" /\ pc = "fetching"
    /\ task[i] = "fetching"
    /\ ~CanRead(changeEntries[i])
    /\ task' = [task EXCEPT ![i] = "rejected"]
    /\ Fail("Error")
    /\ UNCHANGED <<op, includeDiffs, remote, fault, ci, changeEntries, results,
                   totalPatchSize, truncatedPatchCount, omittedPatchCount,
                   commitsWithContent, fetchLog, gates>>
    /\ UNCHANGED reordered
    /\ UNCHANGED <<fvars, svars, pvars, uvars>>

LCPush ==
    /\ op = "lc" /\ pc = "fetching"
    /\ AllResolved
    /\ commitsWithContent' = Append(commitsWithContent, CommitWithContent(ci, results))
    /\ UNCHANGED <<op, includeDiffs, remote, fault, changeEntries, task, results,
                   totalPatchSize, truncatedPatchCount, omittedPatchCount, fetchLog, gates>>
    /\ Advance(commitsWithContent', ci + 1)
    /\ UNCHANGED reordered
    /\ UNCHANGED <<fvars, svars, pvars, uvars>>

NextBatch ==
    \/ PRStart
    \/ \E i \in 1..Len(task) : PRFetchDone(i)
    \/ \E i \in 1..Len(task) : PRFetchFail(i)
    \/ PRReturn
    \/ LCStart
    \/ LCGetChanges
    \/ \E i \in 1..Len(task) : LCFetchDone(i)
    \/ \E i \in 1..Len(task) : LCFetchFail(i)
    \/ LCPush

\* ------------------------------------------------------------------------
\* getFileContent and the content enrichment of searchCode
\* ------------------------------------------------------------------------
\* an optional number: <<>> is undefined, <<n>> is n
NoLine == <<>>
\* x ?? d
Nullish(x, d) == IF x = <<>> THEN d ELSE x[1]

\* A file is described by [n, a, b]: its content splits at '\n' into n lines,
\* the odd ones a characters long and the even ones b characters long.
Lines(f) ==
    [i \in 1..f.n |-> [id |-> i, len |-> IF i % 2 = 1 THEN f.a ELSE f.b, cut |-> FALSE]]

LinePatterns ==
    { <<ShortLen, ShortLen>>, <<0, ShortLen>>, <<MAX_LINE_LENGTH, MAX_LINE_LENGTH>>,
      <<MAX_LINE_LENGTH + 1, MAX_LINE_LENGTH + 1>>, <<ShortLen, MAX_LINE_LENGTH + ExtraLines>>,
      <<MAX_LINE_LENGTH + 1, 0>>, <<ShortLen, 2 * MAX_LINE_LENGTH>> }

FileSizes == {1, 3, SmallFile, MAX_LINES, MAX_LINES + 1, MAX_LINES + ExtraLines}

Files == { [n |-> n, a |-> p[1], b |-> p[2]] : n \in FileSizes, p \in LinePatterns }

StartLines ==
    { NoLine, <<0 - MAX_LINES - 2>>, <<0>>, <<1>>, <<3>>, <<MAX_LINES + 2>>,
      <<2 * MAX_LINES + ExtraLines>> }

EndLines ==
    { NoLine, <<0 - 1>>, <<0>>, <<1>>, <<3>>, <<MAX_LINES>>, <<MAX_LINES + 2>>,
      <<3 * MAX_LINES>> }

\* Array.prototype.slice(start, end) on a sequence (0-based, end exclusive,
\* negative indices counted from the end)
JsSlice(seq, start, end) ==
    LET len == Len(seq)
        k == IF start < 0 THEN Max(len + start, 0) ELSE Min(start, len)
        final == IF end < 0 THEN Max(len + end, 0) ELSE Min(end, len)
    IN IF final > k THEN SubSeq(seq, k + 1, final) ELSE <<>>

\* the per-line limit mistaken for the total limit
TruncateLineWrongLimit(line) ==
    IF line.len > MAX_CHARACTERS
    THEN [id |-> line.id, len |-> MAX_CHARACTERS + LineMarkerLen, cut |-> TRUE]
    ELSE line

\* the marker left out
TruncateLineNoMarker(line) ==
    IF line.len > MAX_LINE_LENGTH
    THEN [id |-> line.id, len |-> MAX_LINE_LENGTH, cut |-> TRUE]
    ELSE line

\* line.substring(0, MAX_LINE_LENGTH) + ' [truncated]' for a line that is too long
TruncateLine(line) ==
    IF line.len > MAX_LINE_LENGTH
    THEN [id |-> line.id, len |-> MAX_LINE_LENGTH + LineMarkerLen, cut |-> TRUE]
    ELSE line

\* sum of the lengths of lines lo..hi
RECURSIVE SumRange(_, _, _)
SumRange(ls, lo, hi) ==
    IF lo > hi THEN 0
    ELSE IF lo = hi THEN ls[lo].len
    ELSE LET mid == (lo + hi) \div 2
         IN SumRange(ls, lo, mid) + SumRange(ls, mid + 1, hi)

\* lines.join('\n').length
JoinLen(ls) == IF Len(ls) = 0 THEN 0 ELSE SumRange(ls, 1, Len(ls)) + Len(ls) - 1

\* the iteration without the separator counted
FitStepNoNewline(ls, i, max, st) ==
    LET lineLength == ls[i].len
    IN IF st.currentLength + lineLength > max
       THEN [st EXCEPT !.brk = TRUE]
       ELSE [currentLength |-> st.currentLength + lineLength,
             lastValidIndex |-> i - 1,
             brk |-> FALSE]

\* One iteration of the fitting loop, for the line at 0-based index i - 1.
\* st = [currentLength, lastValidIndex, brk]
FitStep(ls, i, max, st) ==
    LET lineLength == ls[i].len + (IF i > 1 THEN 1 ELSE 0)
    IN IF st.currentLength + lineLength > max
       THEN [st EXCEPT !.brk = TRUE]
       ELSE [currentLength |-> st.currentLength + lineLength,
             lastValidIndex |-> i - 1,
             brk |-> FALSE]

\* the loop going on after a line that does not fit
RECURSIVE FitLoopNoBreak(_, _, _, _, _)
FitLoopNoBreak(ls, lo, hi, max, st) ==
    IF lo > hi \/ st.currentLength > max THEN st
    ELSE IF lo = hi THEN FitStep(ls, lo, max, [st EXCEPT !.brk = FALSE])
    ELSE LET mid == (lo + hi) \div 2
         IN FitLoopNoBreak(ls, mid + 1, hi, max, FitLoopNoBreak(ls, lo, mid, max, st))

\* the iterations for lines lo..hi in order, stopping at the break
RECURSIVE FitLoop(_, _, _, _, _)
FitLoop(ls, lo, hi, max, st) ==
    IF lo > hi \/ st.brk THEN st
    ELSE IF lo = hi THEN FitStep(ls, lo, max, st)
    ELSE LET mid == (lo + hi) \div 2
         IN FitLoop(ls, mid + 1, hi, max, FitLoop(ls, lo, mid, max, st))

\* a loop that never breaks: every line is kept
LastValidIndexKeepAll(ls, max) == Len(ls) - 1

\* let currentLength = 0; let lastValidIndex = 0; for (...) {...}
LastValidIndex(ls, max) ==
    FitLoop(ls, 1, Len(ls), max,
            [currentLength |-> 0, lastValidIndex |-> 0, brk |-> FALSE]).lastValidIndex

truncateContent(lines, startLine, endLine) ==
    LET processedLines == [i \in 1..Len(lines) |-> TruncateLine(lines[i])]
        truncatedLinesCount ==
            Cardinality({i \in 1..Len(lines) : lines[i].len > MAX_LINE_LENGTH})
        lineNote == IF truncatedLinesCount > 0
                    THEN <<[what |-> "lines", count |-> truncatedLinesCount]>>
                    ELSE <<>>
    IN IF JoinLen(processedLines) > MAX_CHARACTERS
       THEN LET lastValidIndex == LastValidIndex(processedLines, MAX_CHARACTERS)
            IN [content |-> JsSlice(processedLines, 0, lastValidIndex + 1),
                actualEndLine |-> startLine + lastValidIndex,
                truncationNote |->
                    lineNote \o <<[what |-> "chars",
                                   count |-> Len(processedLines) - (lastValidIndex + 1)]>>]
       ELSE [content |-> processedLines,
             actualEndLine |-> endLine,
             truncationNote |-> lineNote]

\* the line '[content truncated due to size limits]'
ContentMarkerLine == [id |-> 0, len |-> ContentMarkerLen, cut |-> FALSE]

truncateFileContent(lines) ==
    LET processedLines == [i \in 1..Len(lines) |-> TruncateLine(lines[i])]
    IN IF JoinLen(processedLines) > MAX_CONTENT_CHARACTERS
       THEN LET lastValidIndex == LastValidIndex(processedLines, MAX_CONTENT_CHARACTERS)
            IN Append(JsSlice(processedLines, 0, lastValidIndex + 1), ContentMarkerLine)
       ELSE processedLines

\* the start clamped into the file
ClampStartIntoFile(totalLines, effectiveStartLine) ==
    Min(totalLines, Max(1, effectiveStartLine))

\* Math.max(1, effectiveStartLine)
ClampStart(totalLines, effectiveStartLine) == Max(1, effectiveStartLine)

\* the end of the file taken for the end of the window
ClampEndToFile(totalLines, effectiveEndLine) == totalLines

\* Math.min(totalLines, effectiveEndLine)
ClampEnd(totalLines, effectiveEndLine) == Min(totalLines, effectiveEndLine)

\* the window of getFileContent: the clamped bounds and the lines selected
Window(f, startLine, endLine) ==
    LET lines == Lines(f)
        totalLines == Len(lines)
        effectiveStartLine == Nullish(startLine, 1)
        requestedEndLine == Nullish(endLine, effectiveStartLine + MAX_LINES - 1)
        effectiveEndLine ==
            IF requestedEndLine - effectiveStartLine + 1 > MAX_LINES
            THEN effectiveStartLine + MAX_LINES - 1
            ELSE requestedEndLine
        clampedStartLine == ClampStart(totalLines, effectiveStartLine)
        clampedEndLine == ClampEnd(totalLines, effectiveEndLine)
    IN [clampedStartLine |-> clampedStartLine,
        clampedEndLine |-> clampedEndLine,
        selectedLines |-> JsSlice(lines, clampedStartLine - 1, clampedEndLine)]

\* the response for a file that was read
FileResponse(f, startLine, endLine) ==
    LET totalLines == Len(Lines(f))
        w == Window(f, startLine, endLine)
        t == truncateContent(w.selectedLines, w.clampedStartLine, w.clampedEndLine)
    IN [kind |-> "ok",
        content |-> t.content,
        isDirectory |-> FALSE,
        totalLines |-> totalLines,
        startLine |-> w.clampedStartLine,
        endLine |-> t.actualEndLine,
        truncated |-> t.actualEndLine < totalLines,
        truncationNote |-> t.truncationNote]

\* what the remote does: the path is a directory, the read succeeds, the item
\* is not found, the stream emits an error, or no stream is returned
RemoteModes == {"file", "directory", "notFound", "streamError", "noStream"}

InitFile ==
    /\ fop \in {"file", "search"}
    /\ frequest \in
          IF fop = "file"
          THEN [file : Files, startLine : StartLines, endLine : EndLines, mode : {"file"}]
               \cup [file : {f \in Files : f.n = 1}, startLine : {NoLine},
                     endLine : {NoLine}, mode : RemoteModes \ {"file"}]
          ELSE [file : Files, startLine : {NoLine}, endLine : {NoLine},
                mode : RemoteModes \ {"directory"}]
    /\ fpc = "start"
    /\ fresponse = NoResponse
    /\ op = "none" /\ includeDiffs = FALSE /\ remote = <<>> /\ fault = "none"
    /\ pc = "idle" /\ ci = 0 /\ changeEntries = <<>> /\ task = <<>> /\ results = <<>>
    /\ totalPatchSize = 0 /\ truncatedPatchCount = 0 /\ omittedPatchCount = 0
    /\ commitsWithContent = <<>> /\ response = NoResponse /\ fetchLog = {} /\ gates = <<>>
    /\ reordered = FALSE
    /\ sreq = NoResponse /\ spc = "idle" /\ stop = 0 /\ stasks = <<>>
    /\ fn = "none" /\ arg = 0 /\ out = NoResponse
    /\ calls = <<>> /\ stream = NoResponse /\ wi = NoResponse /\ lk = NoResponse

\* getItems decides whether the path is a directory; a directory is returned
\* as the listing of its items
GFStart ==
    /\ fop = "file" /\ fpc = "start"
    /\ IF frequest.mode = "directory"
       THEN /\ fresponse' = [kind |-> "ok", isDirectory |-> TRUE]
            /\ fpc' = "done"
       ELSE /\ fpc' = "reading"
            /\ UNCHANGED fresponse
    /\ UNCHANGED <<fop, frequest>>
    /\ UNCHANGED <<bvars, svars, pvars, uvars>>

\* the content stream ends: the window is cut out and truncated
GFRead ==
    /\ fop = "file" /\ fpc = "reading"
    /\ frequest.mode = "file"
    /\ fresponse' = FileResponse(frequest.file, frequest.startLine, frequest.endLine)
    /\ fpc' = "done"
    /\ UNCHANGED <<fop, frequest>>
    /\ UNCHANGED <<bvars, svars, pvars, uvars>>

\* getItemContent rejects, returns no stream, or the stream emits an error:
\* both catch clauses end in an AzureDevOpsResourceNotFoundError
GFFail ==
    /\ fop = "file" /\ fpc = "reading"
    /\ frequest.mode \in {"notFound", "streamError", "noStream"}
    /\ fresponse' = Thrown("AzureDevOpsResourceNotFoundError")
    /\ fpc' = "failed"
    /\ UNCHANGED <<fop, frequest>>
    /\ UNCHANGED <<bvars, svars, pvars, uvars>>

\* one callback of enrichResultsWithContent: the content is read, truncated and
\* stored in the result; a failure is logged and the result is left without content
EnrichResult ==
    /\ fop = "search" /\ fpc = "start"
    /\ fresponse' =
          IF frequest.mode = "file"
          THEN [kind |-> "ok", hasContent |-> TRUE,
                content |-> truncateFileContent(Lines(frequest.file))]
          ELSE [kind |-> "ok", hasContent |-> FALSE]
    /\ fpc' = "done"
    /\ UNCHANGED <<fop, frequest>>
    /\ UNCHANGED <<bvars, svars, pvars, uvars>>

NextFile ==
    \/ GFStart
    \/ GFRead
    \/ GFFail
    \/ EnrichResult

\* ------------------------------------------------------------------------
\* searchCode: the request to the search service and the content fan-out
\* ------------------------------------------------------------------------
\* CODE_SEARCH_PAGE_SIZE is imported from the schemas module; the model takes
\* it from a set of page sizes below, at and above the cap of 10
PageSizes == {ShortLen, MaxSearchResults - 2, 10 * MaxSearchResults}

\* how the call fails: no project id, an HTTP status of the search request,
\* another error
SearchFaults == {"none", "noProject", "http404", "http400", "http401", "http403", "other"}

\* the class of the error thrown for a fault
SearchError(f) ==
    CASE f = "noProject" -> "AzureDevOpsValidationError"
      [] f = "http404" -> "AzureDevOpsResourceNotFoundError"
      [] f = "http400" -> "AzureDevOpsValidationError"
      [] f = "http401" -> "AzureDevOpsAuthenticationError"
      [] f = "http403" -> "AzureDevOpsPermissionError"
      [] OTHER -> "AzureDevOpsError"

\* options.includeContent ? Math.min(CODE_SEARCH_PAGE_SIZE, 10) : CODE_SEARCH_PAGE_SIZE
SearchTop(includeContent, pageSize) ==
    IF includeContent THEN Min(pageSize, 10) ELSE pageSize

InitSearch ==
    /\ sreq \in [includeContent : BOOLEAN, pageSize : PageSizes,
                 returned : 0..MaxSearchResults, fault : {"none"}]
            \cup [includeContent : BOOLEAN, pageSize : PageSizes,
                  returned : {0}, fault : SearchFaults \ {"none"}]
    /\ spc = "start"
    /\ stop = 0
    /\ stasks = <<>>
    /\ op = "none" /\ includeDiffs = FALSE /\ remote = <<>> /\ fault = "none"
    /\ pc = "idle" /\ ci = 0 /\ changeEntries = <<>> /\ task = <<>> /\ results = <<>>
    /\ totalPatchSize = 0 /\ truncatedPatchCount = 0 /\ omittedPatchCount = 0
    /\ commitsWithContent = <<>> /\ response = NoResponse /\ fetchLog = {} /\ gates = <<>>
    /\ reordered = FALSE
    /\ fop = "none" /\ frequest = NoResponse /\ fpc = "idle" /\ fresponse = NoResponse
    /\ fn = "none" /\ arg = 0 /\ out = NoResponse
    /\ calls = <<>> /\ stream = NoResponse /\ wi = NoResponse /\ lk = NoResponse

\* searchCode up to the await of Promise.all in enrichResultsWithContent: the
\* request is sent with $top, the service answers with sreq.returned results,
\* and results.map starts the content callback of every one of them
SearchStart ==
    /\ spc = "start"
    /\ IF sreq.fault = "noProject"
       THEN /\ spc' = "failed"
            /\ UNCHANGED <<stop, stasks>>
       ELSE /\ stop' = SearchTop(sreq.includeContent, sreq.pageSize)
            /\ IF sreq.fault # "none"
               THEN spc' = "failed" /\ UNCHANGED stasks
               ELSE IF sreq.includeContent /\ sreq.returned > 0
               THEN /\ stasks' = [i \in 1..sreq.returned |-> "fetching"]
                    /\ spc' = "enriching"
               ELSE spc' = "done" /\ UNCHANGED stasks
    /\ UNCHANGED sreq
    /\ UNCHANGED <<bvars, fvars, pvars, uvars>>

\* the content callback of one result ends: its content is stored, or its
\* failure is logged
SearchFetchSettled(i) ==
    /\ spc = "enriching"
    /\ stasks[i] = "fetching"
    /\ stasks' = [stasks EXCEPT ![i] = "settled"]
    /\ UNCHANGED <<sreq, spc, stop>>
    /\ UNCHANGED <<bvars, fvars, pvars, uvars>>

\* Promise.all resolved: the results are returned with the pagination metadata
SearchReturn ==
    /\ spc = "enriching"
    /\ \A i \in 1..Len(stasks) : stasks[i] = "settled"
    /\ spc' = "done"
    /\ UNCHANGED <<sreq, stop, stasks>>
    /\ UNCHANGED <<bvars, fvars, pvars, uvars>>

NextSearch ==
    \/ SearchStart
    \/ \E i \in 1..Len(stasks) : SearchFetchSettled(i)
    \/ SearchReturn

\* ------------------------------------------------------------------------
\* getChangeTypeName applied on its own
\* ------------------------------------------------------------------------
\* the codes a change entry may carry: undefined, the flags and their combinations
ChangeTypeCodes == {Undefined} \cup (0..MaxCode)

InitPure ==
    /\ fn = "getChangeTypeName"
    /\ arg \in ChangeTypeCodes
    /\ out = NoResponse
    /\ op = "none" /\ includeDiffs = FALSE /\ remote = <<>> /\ fault = "none"
    /\ pc = "idle" /\ ci = 0 /\ changeEntries = <<>> /\ task = <<>> /\ results = <<>>
    /\ totalPatchSize = 0 /\ truncatedPatchCount = 0 /\ omittedPatchCount = 0
    /\ commitsWithContent = <<>> /\ response = NoResponse /\ fetchLog = {} /\ gates = <<>>
    /\ reordered = FALSE
    /\ fop = "none" /\ frequest = NoResponse /\ fpc = "idle" /\ fresponse = NoResponse
    /\ sreq = NoResponse /\ spc = "idle" /\ stop = 0 /\ stasks = <<>>
    /\ calls = <<>> /\ stream = NoResponse /\ wi = NoResponse /\ lk = NoResponse

ApplyChangeTypeName ==
    /\ fn = "getChangeTypeName"
    /\ out = NoResponse
    /\ out' = [kind |-> "ok", value |-> getChangeTypeName(arg)]
    /\ UNCHANGED <<fn, arg>>
    /\ UNCHANGED <<bvars, fvars, svars, uvars>>

NextPure == ApplyChangeTypeName

\* ------------------------------------------------------------------------
\* Two batch calls with includeDiffs set, running interleaved
\* ------------------------------------------------------------------------
BigList(n) == [i \in 1..n |-> Entry("big", i)]

\* what each of the two calls reads from the remote
TwoCallRemotes ==
    { <<Commit(1, BigList(BudgetEntries))>>,
      <<Commit(1, BigList(BudgetEntries)), Commit(2, <<Entry("edit", 1)>>)>>,
      <<Commit(1, <<Entry("edit", 1), Entry("big", 2)>>)>>,
      <<Commit(1, <<Entry("big", 1)>>), Commit(2, <<Entry("add", 1)>>)>> }

\* a call before its first statement; a pull request has one change list
NewCall(o, r) ==
    [op |-> o, remote |-> r, pc |-> "start", ci |-> 0,
     changeEntries |-> <<>>, task |-> <<>>, results |-> <<>>,
     totalPatchSize |-> 0, truncatedPatchCount |-> 0, omittedPatchCount |-> 0,
     commitsWithContent |-> <<>>, response |-> NoResponse, sawOther |-> FALSE]

InitTwoCalls ==
    /\ calls \in { <<NewCall(o1, r1), NewCall(o2, r2)>> :
                     o1, o2 \in {"pr", "lc"}, r1, r2 \in TwoCallRemotes }
    /\ \A k \in 1..2 : calls[k].op = "pr" => Len(calls[k].remote) = 1
    /\ stream = NoResponse /\ wi = NoResponse /\ lk = NoResponse
    /\ op = "none" /\ includeDiffs = FALSE /\ remote = <<>> /\ fault = "none"
    /\ pc = "idle" /\ ci = 0 /\ changeEntries = <<>> /\ task = <<>> /\ results = <<>>
    /\ totalPatchSize = 0 /\ truncatedPatchCount = 0 /\ omittedPatchCount = 0
    /\ commitsWithContent = <<>> /\ response = NoResponse /\ fetchLog = {} /\ gates = <<>>
    /\ reordered = FALSE
    /\ fop = "none" /\ frequest = NoResponse /\ fpc = "idle" /\ fresponse = NoResponse
    /\ sreq = NoResponse /\ spc = "idle" /\ stop = 0 /\ stasks = <<>>
    /\ fn = "none" /\ arg = 0 /\ out = NoResponse

\* the counters of a sum of both calls, as one module-level accumulator would be
SharedBudget(cs, k) == cs[1].totalPatchSize + cs[2].totalPatchSize

\* totalBudgetExceeded reads the totalPatchSize declared inside the call
OwnBudget(cs, k) == cs[k].totalPatchSize

\* let totalPatchSize = 0; let truncatedPatchCount = 0; let omittedPatchCount = 0
TCStart(k) ==
    /\ calls[k].pc = "start"
    /\ calls' = [calls EXCEPT ![k] =
                    [@ EXCEPT !.totalPatchSize = 0, !.truncatedPatchCount = 0,
                              !.omittedPatchCount = 0, !.pc = "commit", !.ci = 1]]
    /\ UNCHANGED <<stream, wi, lk>>
    /\ UNCHANGED <<bvars, fvars, svars, pvars>>

\* the change list is mapped up to the await of Promise.all
TCGetChanges(k) ==
    LET c == calls[k]
        other == calls[3 - k]
        m == MapEntries(c.remote[c.ci].changes, 1, c.ci, OwnBudget(calls, k),
                        MapStart(c.omittedPatchCount, {}, <<>>))
    IN /\ c.pc = "commit"
       /\ calls' = [calls EXCEPT ![k] =
                       [@ EXCEPT !.changeEntries = c.remote[c.ci].changes,
                                 !.task = m.task, !.results = m.results,
                                 !.omittedPatchCount = m.omitted,
                                 !.pc = "fetching",
                                 !.sawOther = @ \/ (other.pc \in {"commit", "fetching"}
                                     /\ totalBudgetExceeded(other.totalPatchSize))]]
       /\ UNCHANGED <<stream, wi, lk>>
       /\ UNCHANGED <<bvars, fvars, svars, pvars>>

\* the continuation of one entry's callback after both blobs are read
TCFetchDone(k, i) ==
    LET c == calls[k]
        r == DiffResult(c.changeEntries[i])
    IN /\ c.pc = "fetching"
       /\ c.task[i] = "fetching"
       /\ calls' = [calls EXCEPT ![k] =
                       [@ EXCEPT !.truncatedPatchCount =
                                     @ + (IF r.truncated = "true" THEN 1 ELSE 0),
                                 !.totalPatchSize = @ + TextLen(r.patch.text),
                                 !.results = PromiseAllSettle(@, i, r),
                                 !.task = [@ EXCEPT ![i] = "resolved"]]]
       /\ UNCHANGED <<stream, wi, lk>>
       /\ UNCHANGED <<bvars, fvars, svars, pvars>>

\* Promise.all resolved: the files are kept; the call goes on with the next
\* commit or returns
TCPush(k) ==
    LET c == calls[k]
        cwc == Append(c.commitsWithContent,
                      [commitId |-> c.remote[c.ci].commitId, files |-> c.results])
        note == BuildNote(c.truncatedPatchCount, c.omittedPatchCount)
    IN /\ c.pc = "fetching"
       /\ \A i \in 1..Len(c.task) : c.task[i] = "resolved"
       /\ calls' = [calls EXCEPT ![k] =
                       IF c.ci < Len(c.remote)
                       THEN [@ EXCEPT !.commitsWithContent = cwc,
                                      !.ci = @ + 1, !.pc = "commit"]
                       ELSE [@ EXCEPT !.commitsWithContent = cwc, !.pc = "done",
                                !.response =
                                    IF c.op = "pr"
                                    THEN [kind |-> "ok", files |-> c.results,
                                          truncationNote |-> note]
                                    ELSE [kind |-> "ok", commits |-> cwc,
                                          truncationNote |-> note]]]
       /\ UNCHANGED <<stream, wi, lk>>
       /\ UNCHANGED <<bvars, fvars, svars, pvars>>

NextTwoCalls ==
    \/ \E k \in 1..2 : TCStart(k)
    \/ \E k \in 1..2 : TCGetChanges(k)
    \/ \E k \in 1..2 : \E i \in 1..Len(calls[k].task) : TCFetchDone(k, i)
    \/ \E k \in 1..2 : TCPush(k)

\* ------------------------------------------------------------------------
\* listRepositories
\* ------------------------------------------------------------------------
\* a repository as the remote returns it; isDisabled is true, false or absent
Repo(i, d) == [id |-> i, isDisabled |-> d]

RepoLists ==
    UNION { { [i \in 1..n |-> Repo(i, ds[i])] : ds \in [1..n -> {"true", "false", "absent"}] } :
            n \in 0..MaxRepos }

\* how the call fails: not at all, with an AzureDevOpsError, with another error
RepoFaults == {"none", "typed", "other"}

\* only a repository whose isDisabled is false passes
EnabledStrict(repo) == repo.isDisabled = "false"

\* !repo.isDisabled
Enabled(repo) == repo.isDisabled \in {"false", "absent"}

\* ({ isDisabled: _isDisabled, ...rest }) => rest
StripDisabled(repo) == [id |-> repo.id]

\* repositories.filter(...).map(...)
RECURSIVE FilterRepos(_)
FilterRepos(repos) ==
    IF repos = <<>> THEN <<>>
    ELSE (IF Enabled(Head(repos)) THEN <<StripDisabled(Head(repos))>> ELSE <<>>)
         \o FilterRepos(Tail(repos))

InitRepos ==
    /\ fn = "listRepositories"
    /\ arg \in [repositories : RepoLists, includeLinks : BOOLEAN, fault : {"none"}]
           \cup [repositories : {<<>>}, includeLinks : BOOLEAN,
                 fault : RepoFaults \ {"none"}]
    /\ out = NoResponse
    /\ op = "none" /\ includeDiffs = FALSE /\ remote = <<>> /\ fault = "none"
    /\ pc = "idle" /\ ci = 0 /\ changeEntries = <<>> /\ task = <<>> /\ results = <<>>
    /\ totalPatchSize = 0 /\ truncatedPatchCount = 0 /\ omittedPatchCount = 0
    /\ commitsWithContent = <<>> /\ response = NoResponse /\ fetchLog = {} /\ gates = <<>>
    /\ reordered = FALSE
    /\ fop = "none" /\ frequest = NoResponse /\ fpc = "idle" /\ fresponse = NoResponse
    /\ sreq = NoResponse /\ spc = "idle" /\ stop = 0 /\ stasks = <<>>
    /\ calls = <<>> /\ stream = NoResponse /\ wi = NoResponse /\ lk = NoResponse

\* the call returns the filtered list, rethrows an AzureDevOpsError as it is, or
\* wraps another error in Error('Failed to list repositories: ...')
ListRepositories ==
    /\ fn = "listRepositories"
    /\ out = NoResponse
    /\ out' = CASE arg.fault = "none" ->
                     [kind |-> "ok", value |-> FilterRepos(arg.repositories)]
                [] arg.fault = "typed" ->
                     [kind |-> "error", class |-> "AzureDevOpsError", wrapped |-> FALSE]
                [] OTHER ->
                     [kind |-> "error", class |-> "Error", wrapped |-> TRUE]
    /\ UNCHANGED <<fn, arg>>
    /\ UNCHANGED <<bvars, fvars, svars, uvars>>

NextRepos == ListRepositories

\* ------------------------------------------------------------------------
\* The coding-agent server: ListTools and CallTool
\* ------------------------------------------------------------------------
\* The tools of the features. The names of the artifact-link tools, of
\* search_work_items, list_projects and get_project are read from the server
\* and the artifact-links module; search_code stands for the search tools and
\* another_project_tool for the project tools that the filters leave out.
UsersTools == {"get_me"}
ProjectsTools == {"list_projects", "get_project", "another_project_tool"}
WorkItemsTools ==
    {"list_work_items", "get_work_item", "create_work_item", "update_work_item",
     "manage_work_item_link"}
SearchTools == {"search_work_items", "search_code"}
ArtifactLinkTools == {"link_commit_to_work_item", "link_branch_to_work_item"}

\* searchTools.filter((tool) => tool.name === 'search_work_items')
CodingAgentSearchTools == {t \in SearchTools : t = "search_work_items"}

\* projectsTools.filter(... 'list_projects' || ... 'get_project')
CodingAgentProjectsTools == {t \in ProjectsTools : t \in {"list_projects", "get_project"}}

\* the tools the ListTools handler returns
ListedTools ==
    UsersTools \cup CodingAgentProjectsTools \cup WorkItemsTools
        \cup CodingAgentSearchTools \cup ArtifactLinkTools

\* names a CallTool request may carry
ToolNames ==
    UsersTools \cup ProjectsTools \cup WorkItemsTools \cup SearchTools
        \cup ArtifactLinkTools \cup {"list_repositories", "no_such_tool"}

\* isArtifactLinksRequest accepts the two names of its feature. isSearchRequest
\* and isProjectsRequest are the identifiers of the search and projects modules,
\* shared with their unfiltered tool lists: they accept either every tool of
\* the feature, as isArtifactLinksRequest does, or the listed tools only.
IdentifierChoices(all, listed) == {all, listed}

\* the chain of is...Request tests of the CallTool handler
Dispatch(name, accepts) ==
    IF name \in WorkItemsTools THEN "workItems"
    ELSE IF name \in accepts.projects THEN "projects"
    ELSE IF name \in accepts.search THEN "search"
    ELSE IF name \in UsersTools THEN "users"
    ELSE IF name \in ArtifactLinkTools THEN "artifactLinks"
    ELSE "unknown"

InitServer ==
    /\ fn \in {"ListTools", "CallTool"}
    /\ arg \in IF fn = "ListTools" THEN {[name |-> "tools/list"]}
               ELSE [name : ToolNames,
                     connects : BOOLEAN,
                     accepts : [search : IdentifierChoices(SearchTools, CodingAgentSearchTools),
                                projects : IdentifierChoices(ProjectsTools,
                                                             CodingAgentProjectsTools)]]
    /\ out = NoResponse
    /\ op = "none" /\ includeDiffs = FALSE /\ remote = <<>> /\ fault = "none"
    /\ pc = "idle" /\ ci = 0 /\ changeEntries = <<>> /\ task = <<>> /\ results = <<>>
    /\ totalPatchSize = 0 /\ truncatedPatchCount = 0 /\ omittedPatchCount = 0
    /\ commitsWithContent = <<>> /\ response = NoResponse /\ fetchLog = {} /\ gates = <<>>
    /\ reordered = FALSE
    /\ fop = "none" /\ frequest = NoResponse /\ fpc = "idle" /\ fresponse = NoResponse
    /\ sreq = NoResponse /\ spc = "idle" /\ stop = 0 /\ stasks = <<>>
    /\ calls = <<>> /\ stream = NoResponse /\ wi = NoResponse /\ lk = NoResponse

ListTools ==
    /\ fn = "ListTools"
    /\ out = NoResponse
    /\ out' = [kind |-> "tools", tools |-> ListedTools]
    /\ UNCHANGED <<fn, arg>>
    /\ UNCHANGED <<bvars, fvars, svars, uvars>>

\* the request is routed to the handler of the first feature that accepts it;
\* a failed connection and an unknown tool end in handleResponseError
CallTool ==
    /\ fn = "CallTool"
    /\ out = NoResponse
    /\ out' = IF ~arg.connects
              THEN [kind |-> "errorResponse", cause |-> "AzureDevOpsAuthenticationError"]
              ELSE IF Dispatch(arg.name, arg.accepts) = "unknown"
              THEN [kind |-> "errorResponse", cause |-> "Unknown tool"]
              ELSE [kind |-> "dispatched", handler |-> Dispatch(arg.name, arg.accepts)]
    /\ UNCHANGED <<fn, arg>>
    /\ UNCHANGED <<bvars, fvars, svars, uvars>>

NextServer == ListTools \/ CallTool

\* ---------------------------------------------------------------------------
\* Stream-to-text conversion: streamToString, the getBlobText of
\* getPullRequestChanges and the content promise of getFileContent.
\* ---------------------------------------------------------------------------

StreamSites == {"streamToString", "getBlobText", "getFileContent"}

\* a chunk is a short run of bytes
ChunkValues == {<<1>>, <<2, 3>>}

\* Buffer.concat(chunks)
RECURSIVE BufferConcat(_)
BufferConcat(chunks) ==
    IF chunks = <<>> THEN <<>> ELSE Head(chunks) \o BufferConcat(Tail(chunks))

\* The conversion only registers listeners for 'data', 'end' and 'error'; it
\* never calls destroy or close on the stream and has no finally clause.  What
\* happens to the transport handle once the stream has ended or failed is
\* therefore the stream's own business: a NodeJS.ReadableStream may destroy
\* itself (autoDestroy) or leave the handle to whoever holds it.
HandleAfter(s) == IF s.autoDestroy THEN "released" ELSE s.handle

\* stream.on('data', c => chunks.push(Buffer.from(c)))
OnData(s, c) == [s EXCEPT !.chunks = Append(@, c)]

\* stream.on('end', () => resolve(Buffer.concat(chunks).toString('utf8')))
OnEnd(s) == [s EXCEPT !.state = "ended",
                      !.promise = "resolved",
                      !.text = BufferConcat(s.chunks),
                      !.handle = HandleAfter(s)]

\* stream.on('error', err => reject(err))
OnError(s) == [s EXCEPT !.state = "errored",
                        !.promise = "rejected",
                        !.handle = HandleAfter(s)]

\* the stream has been obtained and the listeners are registered
InitStream ==
    /\ stream \in [site : StreamSites, autoDestroy : BOOLEAN, chunks : {<<>>},
                   state : {"open"}, promise : {"pending"}, text : {<<>>},
                   handle : {"held"}]
    /\ op = "none" /\ includeDiffs = FALSE /\ remote = <<>> /\ fault = "none"
    /\ pc = "idle" /\ ci = 0 /\ changeEntries = <<>> /\ task = <<>> /\ results = <<>>
    /\ totalPatchSize = 0 /\ truncatedPatchCount = 0 /\ omittedPatchCount = 0
    /\ commitsWithContent = <<>> /\ response = NoResponse /\ fetchLog = {} /\ gates = <<>>
    /\ reordered = FALSE
    /\ fop = "none" /\ frequest = NoResponse /\ fpc = "idle" /\ fresponse = NoResponse
    /\ sreq = NoResponse /\ spc = "idle" /\ stop = 0 /\ stasks = <<>>
    /\ fn = "none" /\ arg = 0 /\ out = NoResponse
    /\ calls = <<>> /\ wi = NoResponse /\ lk = NoResponse

StreamData ==
    /\ stream # NoResponse
    /\ stream.state = "open"
    /\ Len(stream.chunks) < MaxChunks
    /\ \E c \in ChunkValues : stream' = OnData(stream, c)
    /\ UNCHANGED <<calls, wi, lk>>
    /\ UNCHANGED <<bvars, fvars, svars, pvars>>

StreamEnd ==
    /\ stream # NoResponse
    /\ stream.state = "open"
    /\ stream' = OnEnd(stream)
    /\ UNCHANGED <<calls, wi, lk>>
    /\ UNCHANGED <<bvars, fvars, svars, pvars>>

StreamError ==
    /\ stream # NoResponse
    /\ stream.state = "open"
    /\ stream' = OnError(stream)
    /\ UNCHANGED <<calls, wi, lk>>
    /\ UNCHANGED <<bvars, fvars, svars, pvars>>

NextStream == StreamData \/ StreamEnd \/ StreamError

\* ---------------------------------------------------------------------------
\* linkBranchToWorkItem and linkCommitToWorkItem against a work item that
\* other clients update as well
\* ---------------------------------------------------------------------------

\* buildBranchArtifactUrl / buildCommitArtifactUrl
ArtifactUrl(kind, name) ==
    [scheme |-> "vstfs", type |-> IF kind = "branch" THEN "Ref" ELSE "Commit",
     name |-> name]

\* the relations a work item may hold: links to the branch or commit of the
\* call, links to another one, and relations that are no artifact links
RelationValues ==
    {[rel |-> "ArtifactLink", url |-> ArtifactUrl("branch", "target")],
     [rel |-> "ArtifactLink", url |-> ArtifactUrl("commit", "target")],
     [rel |-> "ArtifactLink", url |-> ArtifactUrl("branch", "other")],
     [rel |-> "Hyperlink", url |-> ArtifactUrl("branch", "target")]}

RelationLists ==
    UNION { [1..n -> RelationValues] : n \in 0..MaxRelations }

\* how the remote fails the call, "none" if it does not
LinkFaults == {"none", "connect", "getRejects", "workItemMissing",
               "updateRejects", "updateNull"}

\* the first of the required options that is missing, "none" if all are given
MissingOptions == {"none", "workItemId", "repositoryId", "name"}

\* relations.findIndex(rel => rel.rel === 'ArtifactLink' && rel.url === artifactUrl),
\* counted from 0, -1 when no relation matches
findIndex(relations, artifactUrl) ==
    LET hits == {k \in 1..Len(relations) :
                    relations[k].rel = "ArtifactLink" /\ relations[k].url = artifactUrl} IN
    IF hits = {} THEN -1
    ELSE (CHOOSE k \in hits : \A m \in hits : k <= m) - 1

\* the relations without the one at position k
RemoveAt(relations, k) ==
    SubSeq(relations, 1, k - 1) \o SubSeq(relations, k + 1, Len(relations))

\* an error of the try block leaves the call as it is
CatchKeep(class) == class

\* the catch clause: an AzureDevOpsError is rethrown, anything else is wrapped
\* in an AzureDevOpsError('Failed to ... link: ...')
CatchClass(class) ==
    IF class \in {"AzureDevOpsError", "AzureDevOpsResourceNotFoundError"}
    THEN class ELSE "AzureDevOpsError"

\* getWorkItem answers a work item without relations with relations undefined
RelationsRead(relations) ==
    IF relations = <<>> THEN [defined |-> FALSE, list |-> <<>>]
    ELSE [defined |-> TRUE, list |-> relations]

LinkFail(cause, class, remoteCalls) ==
    lk' = [lk EXCEPT !.pc = "failed", !.cause = cause, !.error = class,
                     !.remoteCalls = remoteCalls]

InitLink ==
    /\ wi \in {[relations |-> r, original |-> r, others |-> 0] : r \in RelationLists}
    /\ lk \in [kind : {"branch", "commit"},
               operation : {"add", "remove"},
               missing : MissingOptions,
               fault : LinkFaults,
               pc : {"start"},
               relationIndex : {-1},
               remoteCalls : {<<>>},
               effect : {[op |-> "none"]},
               cause : {"none"},
               error : {"none"}]
    /\ lk.missing # "none" => lk.fault = "none"
    /\ op = "none" /\ includeDiffs = FALSE /\ remote = <<>> /\ fault = "none"
    /\ pc = "idle" /\ ci = 0 /\ changeEntries = <<>> /\ task = <<>> /\ results = <<>>
    /\ totalPatchSize = 0 /\ truncatedPatchCount = 0 /\ omittedPatchCount = 0
    /\ commitsWithContent = <<>> /\ response = NoResponse /\ fetchLog = {} /\ gates = <<>>
    /\ reordered = FALSE
    /\ fop = "none" /\ frequest = NoResponse /\ fpc = "idle" /\ fresponse = NoResponse
    /\ sreq = NoResponse /\ spc = "idle" /\ stop = 0 /\ stasks = <<>>
    /\ fn = "none" /\ arg = 0 /\ out = NoResponse
    /\ calls = <<>> /\ stream = NoResponse

\* the call up to and including its first request to the work item: the input
\* validation, then either the 'add' update or the read of the relations and
\* the search for the link
LinkStart ==
    /\ lk # NoResponse /\ lk.pc = "start"
    /\ LET url == ArtifactUrl(lk.kind, "target")
           link == [rel |-> "ArtifactLink", url |-> url] IN
       IF lk.missing # "none"
       THEN LinkFail("validation", "Error", <<>>) /\ UNCHANGED wi
       ELSE IF lk.fault = "connect"
       THEN /\ LinkFail("remote", CatchClass("Error"), <<"getWorkItemTrackingApi">>)
            /\ UNCHANGED wi
       ELSE IF lk.operation = "add"
       THEN IF lk.fault = "updateRejects"
            THEN /\ LinkFail("remote", CatchClass("Error"),
                             <<"getWorkItemTrackingApi", "updateWorkItem">>)
                 /\ UNCHANGED wi
            ELSE IF lk.fault \in {"updateNull", "workItemMissing"}
            THEN /\ LinkFail("workItemNotFound",
                             CatchClass("AzureDevOpsResourceNotFoundError"),
                             <<"getWorkItemTrackingApi", "updateWorkItem">>)
                 /\ UNCHANGED wi
            ELSE /\ wi' = [wi EXCEPT !.relations = Append(@, link)]
                 /\ lk' = [lk EXCEPT !.pc = "done",
                                     !.remoteCalls = <<"getWorkItemTrackingApi",
                                                       "updateWorkItem">>,
                                     !.effect = [op |-> "add", relation |-> link]]
       ELSE LET read == RelationsRead(wi.relations)
                called == <<"getWorkItemTrackingApi", "getWorkItem">> IN
            /\ UNCHANGED wi
            /\ IF lk.fault = "getRejects"
               THEN LinkFail("remote", CatchClass("Error"), called)
               ELSE IF lk.fault = "workItemMissing"
               THEN LinkFail("workItemNotFound",
                             CatchClass("AzureDevOpsResourceNotFoundError"), called)
               ELSE IF ~read.defined
               THEN LinkFail("noRelations", CatchClass("AzureDevOpsError"), called)
               ELSE IF findIndex(read.list, url) = -1
               THEN LinkFail("linkNotFound", CatchClass("AzureDevOpsError"), called)
               ELSE lk' = [lk EXCEPT !.pc = "removing",
                                     !.relationIndex = findIndex(read.list, url),
                                     !.remoteCalls = called]
    /\ UNCHANGED <<calls, stream>>
    /\ UNCHANGED <<bvars, fvars, svars, pvars>>

\* the update [{op: 'remove', path: '/relations/' + relationIndex}]: the remote
\* removes the relation that is at that index when the update arrives, and
\* rejects the update when there is none
LinkRemoveUpdate ==
    /\ lk # NoResponse /\ lk.pc = "removing"
    /\ LET called == Append(lk.remoteCalls, "updateWorkItem")
           k == lk.relationIndex + 1 IN
       IF lk.fault = "updateRejects" \/ k > Len(wi.relations)
       THEN LinkFail("remote", CatchClass("Error"), called) /\ UNCHANGED wi
       ELSE /\ wi' = [wi EXCEPT !.relations = RemoveAt(@, k)]
            /\ lk' = [lk EXCEPT !.pc = "done",
                                !.remoteCalls = called,
                                !.effect = [op |-> "remove",
                                            relation |-> wi.relations[k]]]
    /\ UNCHANGED <<calls, stream>>
    /\ UNCHANGED <<bvars, fvars, svars, pvars>>

\* another client adds a relation to the work item or removes one
OtherClient ==
    /\ lk # NoResponse /\ lk.pc \in {"start", "removing"}
    /\ wi.others < MaxOtherUpdates
    /\ \/ /\ Len(wi.relations) < MaxRelations
          /\ \E r \in RelationValues :
                 wi' = [wi EXCEPT !.relations = Append(@, r), !.others = @ + 1]
       \/ \E k \in 1..Len(wi.relations) :
              wi' = [wi EXCEPT !.relations = RemoveAt(@, k), !.others = @ + 1]
    /\ UNCHANGED lk
    /\ UNCHANGED <<calls, stream>>
    /\ UNCHANGED <<bvars, fvars, svars, pvars>>

NextLink == LinkStart \/ LinkRemoveUpdate \/ OtherClient

Spec == InitBatch /\ [][NextBatch]_vars

SpecFile == InitFile /\ [][NextFile]_vars

SpecSearch == InitSearch /\ [][NextSearch]_vars

SpecPure == InitPure /\ [][NextPure]_vars

SpecServer == InitServer /\ [][NextServer]_vars

SpecRepos == InitRepos /\ [][NextRepos]_vars

SpecTwoCalls == InitTwoCalls /\ [][NextTwoCalls]_vars

SpecStream == InitStream /\ [][NextStream]_vars

SpecLink == InitLink /\ [][NextLink]_vars

\* either kind of call
InitAll == InitBatch \/ InitFile

NextAll == NextBatch \/ NextFile

SpecAll == InitAll /\ [][NextAll]_vars

\* ------------------------------------------------------------------------
\* Properties of the batch operations
\* ------------------------------------------------------------------------
Returned == pc = "done" /\ response.kind = "ok"

\* the entries of the returned response with the commit and position each
\* came from, in response order
RECURSIVE FlatCommits(_)
FlatCommits(cs) ==
    IF cs = <<>> THEN <<>>
    ELSE [i \in 1..Len(cs[1].files) |->
             [c |-> cs[1].commitId, i |-> i, file |-> cs[1].files[i]]]
         \o FlatCommits(Tail(cs))

ResponseEntries ==
    IF op = "pr"
    THEN [i \in 1..Len(response.files) |-> [c |-> 1, i |-> i, file |-> response.files[i]]]
    ELSE FlatCommits(response.commits)

IsDiff(x) == "patch" \in DOMAIN x.file /\ ~x.file.patch.omitted
IsPlaceholder(x) == "patch" \in DOMAIN x.file /\ x.file.patch.omitted
PatchLen(x) == TextLen(x.file.patch.text)

\* total length of the non-placeholder patches among the first n entries
RECURSIVE SumPatches(_, _)
SumPatches(xs, n) ==
    IF n = 0 THEN 0
    ELSE (IF IsDiff(xs[n]) THEN PatchLen(xs[n]) ELSE 0) + SumPatches(xs, n - 1)

RECURSIVE LongestPatch(_, _)
LongestPatch(xs, n) ==
    IF n = 0 THEN 0
    ELSE Max(IF IsDiff(xs[n]) THEN PatchLen(xs[n]) ELSE 0, LongestPatch(xs, n - 1))

Fetched(x) == \E side \in {"old", "new"} : <<x.c, x.i, side>> \in fetchLog

\* C1 (as claimed): the non-placeholder patches of one response total at most
\* MAX_TOTAL_PATCH_SIZE plus the length of one single patch.
C1_AggregateBudget ==
    (Returned /\ includeDiffs) =>
        LET xs == ResponseEntries IN
        SumPatches(xs, Len(xs)) <= MAX_TOTAL_PATCH_SIZE + LongestPatch(xs, Len(xs))

\* C2 (as claimed): an entry that comes after patches totalling at least
\* MAX_TOTAL_PATCH_SIZE in list order is the omission placeholder, and no blob
\* was fetched for it.
C2_LaterEntriesOmitted ==
    (Returned /\ includeDiffs) =>
        LET xs == ResponseEntries IN
        \A j \in 1..Len(xs) :
            SumPatches(xs, j - 1) >= MAX_TOTAL_PATCH_SIZE
                => (IsPlaceholder(xs[j]) /\ ~Fetched(xs[j]))

\* ten entries in one change list, each with a 6000-character patch
ScenarioC ==
    /\ Len(remote) = 1
    /\ Len(remote[1].changes) = 10
    /\ \A i \in 1..10 : TextLen(createTwoFilesPatch(remote[1].changes[i])) = 6000

\* C3 (as claimed): in Scenario C the first 8 entries carry full patches, the
\* last 2 the placeholder, and the note reports 2 patches omitted.
C3_ScenarioC ==
    (Returned /\ includeDiffs /\ ScenarioC) =>
        LET xs == ResponseEntries IN
        /\ Len(xs) = 10
        /\ \A j \in 1..8 : IsDiff(xs[j]) /\ PatchLen(xs[j]) = 6000
        /\ \A j \in 9..10 : IsPlaceholder(xs[j])
        /\ \E k \in 1..Len(response.truncationNote) :
               /\ response.truncationNote[k].what = "omitted"
               /\ response.truncationNote[k].count = 2

\* what entry e must look like in the response
Describes(file, e) ==
    /\ file.path = DisplayPath(e)
    /\ file.changeType = getChangeTypeName(e.changeType)
    /\ includeDiffs =>
          \/ file.patch.omitted
          \/ file.patch.text = truncatePatch(createTwoFilesPatch(e)).patch

FilesDescribe(files, entries) ==
    /\ Len(files) = Len(entries)
    /\ \A i \in 1..Len(entries) : Describes(files[i], entries[i])

\* the commits of the remote that have a commitId, in the remote's order
RECURSIVE WithId(_)
WithId(cs) ==
    IF cs = <<>> THEN <<>>
    ELSE (IF cs[1].commitId # 0 THEN <<cs[1]>> ELSE <<>>) \o WithId(Tail(cs))

\* C4: the i-th returned entry describes the i-th entry of the change list,
\* whatever the order the fetches completed in; listCommits returns the commits
\* in the remote's order.
C4_OrderPreserved ==
    Returned =>
        IF op = "pr"
        THEN FilesDescribe(response.files, remote[1].changes)
        ELSE LET cs == WithId(remote) IN
             /\ Len(response.commits) = Len(cs)
             /\ \A k \in 1..Len(cs) :
                    /\ response.commits[k].commitId = cs[k].commitId
                    /\ FilesDescribe(response.commits[k].files, cs[k].changes)

\* C4 witness: a response whose fetches completed out of list order
C4_Witness ==
    /\ Returned /\ includeDiffs /\ reordered
    /\ \E x \in {ResponseEntries[j] : j \in 1..Len(ResponseEntries)} : IsDiff(x) /\ x.i > 1

\* C5 (as claimed): a failed blob read of one entry does not abort the call.
C5_FailureDoesNotAbort ==
    (\E i \in 1..Len(task) : task[i] = "rejected") => response.kind # "error"

\* ------------------------------------------------------------------------
\* Properties of getFileContent and of the search content
\* ------------------------------------------------------------------------
FileReturned == fop = "file" /\ fpc = "done" /\ ~fresponse.isDirectory

SearchReturned == fop = "search" /\ fpc = "done" /\ fresponse.hasContent

\* C6 (as claimed): the content of a file response has at most MAX_LINES lines,
\* whatever startLine and endLine were requested.
C6_AtMostMaxLines ==
    FileReturned => Len(fresponse.content) <= MAX_LINES

\* the per-line-truncated lines first..last of the requested file
FileWindow(first, last) ==
    [i \in 1..(last - first + 1) |-> TruncateLine(Lines(frequest.file)[first + i - 1])]

\* C7 (as claimed): a file response with at least one line reports a window
\* 1 <= startLine <= endLine <= totalLines and holds exactly those lines.
C7_WindowMatchesContent ==
    (FileReturned /\ Len(fresponse.content) >= 1) =>
        /\ 1 <= fresponse.startLine
        /\ fresponse.startLine <= fresponse.endLine
        /\ fresponse.endLine <= fresponse.totalLines
        /\ fresponse.content = FileWindow(fresponse.startLine, fresponse.endLine)

\* the requested start line lies behind the end of the file
StartBehindFile ==
    /\ fop = "file" /\ frequest.mode = "file"
    /\ Max(1, Nullish(frequest.startLine, 1)) > frequest.file.n

\* C8: a start line behind the end of the file yields a successful response
\* with empty content and no truncation note, not an error.
C8_EmptyWindow ==
    (StartBehindFile /\ fpc \in {"done", "failed"}) =>
        /\ fresponse.kind = "ok"
        /\ fresponse.content = <<>>
        /\ fresponse.truncationNote = <<>>

\* C8 witness: such a request has been answered
C8_Witness == StartBehindFile /\ fpc = "done" /\ fresponse.totalLines > 1

LinesWithin(ls, limit) == \A i \in 1..Len(ls) : ls[i].len <= limit

PatchLinesWithin(limit) ==
    (Returned /\ includeDiffs) =>
        \A j \in 1..Len(ResponseEntries) :
            LET t == ResponseEntries[j].file.patch.text
            IN \A k \in 1..Len(t) : t[k] <= limit

ContentLinesWithin(limit) ==
    /\ FileReturned => LinesWithin(fresponse.content, limit)
    /\ SearchReturned => LinesWithin(fresponse.content, limit)

\* C9 (as claimed): no line of a file content, a search content or a patch is
\* longer than MAX_LINE_LENGTH plus the line marker.
C9_NoLongLine ==
    /\ ContentLinesWithin(MAX_LINE_LENGTH + LineMarkerLen)
    /\ PatchLinesWithin(MAX_LINE_LENGTH + LineMarkerLen)

\* C9 (amended): no line of a file content or of a search content is longer
\* than MAX_LINE_LENGTH plus the line marker; a patch is cut as a whole only, so
\* a line of a patch is bounded by MAX_PATCH_LENGTH.
C9_ContentLinesBounded ==
    /\ ContentLinesWithin(MAX_LINE_LENGTH + LineMarkerLen)
    /\ PatchLinesWithin(MAX_PATCH_LENGTH)

\* C9 witness: a returned file content with a line the per-line truncator cut
C9_Witness ==
    /\ FileReturned
    /\ \E i \in 1..Len(fresponse.content) :
           fresponse.content[i].cut
           /\ Lines(frequest.file)[fresponse.content[i].id].len > MAX_LINE_LENGTH + LineMarkerLen

\* the search content without its trailing marker line
SearchMarked ==
    Len(fresponse.content) > 0
    /\ fresponse.content[Len(fresponse.content)] = ContentMarkerLine

SearchBody ==
    IF SearchMarked
    THEN SubSeq(fresponse.content, 1, Len(fresponse.content) - 1)
    ELSE fresponse.content

\* C10: a file content has at most MAX_CHARACTERS characters; a search content
\* has at most MAX_CONTENT_CHARACTERS characters without the marker, and the
\* marker is there exactly when a line was dropped.
C10_ContentWithinBudget ==
    /\ FileReturned => JoinLen(fresponse.content) <= MAX_CHARACTERS
    /\ SearchReturned =>
          /\ JoinLen(SearchBody) <= MAX_CONTENT_CHARACTERS
          /\ SearchMarked <=> Len(SearchBody) < frequest.file.n

\* C10 witness: a search content that lost lines and fills the budget to
\* within one line
C10_Witness ==
    /\ SearchReturned /\ SearchMarked
    /\ JoinLen(SearchBody) + MAX_LINE_LENGTH + 1 > MAX_CONTENT_CHARACTERS

\* the lines of the request's window, as handed to truncateContent
Selected ==
    Window(frequest.file, frequest.startLine, frequest.endLine).selectedLines

SomeLineShortened(sel) == \E i \in 1..Len(sel) : sel[i].len > MAX_LINE_LENGTH

SomeLineDropped(sel) == Len(fresponse.content) < Len(sel)

\* C11: a file response carries a truncationNote exactly when a selected line
\* was shortened by the per-line truncator or a selected line was dropped by the
\* total-size truncator.
C11_NoteIffTruncated ==
    FileReturned =>
        LET sel == Selected IN
        (fresponse.truncationNote # <<>>)
            <=> (SomeLineShortened(sel) \/ SomeLineDropped(sel))

\* C11 witness: a response with a note although no line was shortened (lines
\* were dropped), for a window that does not start at the first line
C11_Witness ==
    /\ FileReturned
    /\ fresponse.truncationNote # <<>>
    /\ fresponse.startLine > 1
    /\ LET sel == Selected IN ~SomeLineShortened(sel) /\ SomeLineDropped(sel)

\* the truncationNote of the batch response, <<>> when the field is absent
BatchNote ==
    IF "truncationNote" \in DOMAIN response THEN response.truncationNote ELSE <<>>

\* the count the note reports for one kind of part, 0 when it has no such part
NoteCount(note, what) ==
    IF \E k \in 1..Len(note) : note[k].what = what
    THEN (CHOOSE part \in {note[k] : k \in 1..Len(note)} : part.what = what).count
    ELSE 0

\* a patch that was cut at MAX_PATCH_LENGTH: only then it is longer than that
WasCut(x) == IsDiff(x) /\ PatchLen(x) > MAX_PATCH_LENGTH

CutEntries(xs) == {j \in 1..Len(xs) : WasCut(xs[j])}

PlaceholderEntries(xs) == {j \in 1..Len(xs) : IsPlaceholder(xs[j])}

\* C12: with includeDiffs set, the response carries a truncationNote exactly
\* when some returned entry has truncated = true; the note's truncated count is
\* the number of entries whose patch was cut at MAX_PATCH_LENGTH and its omitted
\* count the number of placeholder entries, in every completion order.
C12_NoteMatchesEntries ==
    (Returned /\ includeDiffs) =>
        LET xs == ResponseEntries
            note == BatchNote
        IN /\ (note # <<>>) <=> (\E j \in 1..Len(xs) : xs[j].file.truncated = "true")
           /\ NoteCount(note, "truncated") = Cardinality(CutEntries(xs))
           /\ NoteCount(note, "omitted") = Cardinality(PlaceholderEntries(xs))

\* C12 witness: a response with cut patches and with placeholders, whose
\* fetches completed out of list order
C12_Witness ==
    /\ Returned /\ includeDiffs /\ reordered
    /\ CutEntries(ResponseEntries) # {}
    /\ PlaceholderEntries(ResponseEntries) # {}
    /\ Cardinality(CutEntries(ResponseEntries)) # Cardinality(PlaceholderEntries(ResponseEntries))

\* the window was cut at MAX_LINES: the request asked for more lines than that
\* and the file holds lines behind the capped window
CutByLineLimit ==
    LET start == Nullish(frequest.startLine, 1)
        end == Nullish(frequest.endLine, start + MAX_LINES - 1)
    IN /\ end - start + 1 >= MAX_LINES
       /\ start + MAX_LINES - 1 < frequest.file.n

\* C13 (as claimed): the truncated flag of a file response is true exactly when
\* the content was cut by the line limit or by a character limit: a line was
\* shortened to MAX_LINE_LENGTH or lines were dropped for the MAX_CHARACTERS
\* budget.
C13_TruncatedIffCut ==
    FileReturned =>
        LET sel == Selected IN
        fresponse.truncated
            <=> (CutByLineLimit \/ SomeLineShortened(sel) \/ SomeLineDropped(sel))

\* a request without startLine and endLine on a file of more than MAX_LINES
\* lines has been answered
DefaultOnLongFile ==
    /\ FileReturned
    /\ frequest.startLine = NoLine /\ frequest.endLine = NoLine
    /\ frequest.file.n > MAX_LINES

\* the content holds the lines first..last of the file, each one whole or
\* shortened
HoldsLines(first, last) ==
    /\ Len(fresponse.content) = last - first + 1
    /\ \A i \in 1..Len(fresponse.content) : fresponse.content[i].id = first + i - 1

\* C14 (as claimed): a request without startLine and endLine on a file of more
\* than MAX_LINES lines returns lines 1..MAX_LINES with startLine = 1,
\* endLine = MAX_LINES, truncated = true and totalLines the file's line count.
C14_DefaultWindow ==
    DefaultOnLongFile =>
        /\ fresponse.startLine = 1
        /\ fresponse.endLine = MAX_LINES
        /\ HoldsLines(1, MAX_LINES)
        /\ fresponse.truncated
        /\ fresponse.totalLines = frequest.file.n

\* the first MAX_LINES lines of the file, per-line truncated, fit MAX_CHARACTERS
FirstPageFits == JoinLen(FileWindow(1, MAX_LINES)) <= MAX_CHARACTERS

\* C14 (amended): such a request returns startLine = 1, truncated = true, the
\* file's line count as totalLines and the lines 1..endLine; endLine is
\* MAX_LINES when the first MAX_LINES lines fit the character budget, and less
\* than MAX_LINES when they do not.
C14_DefaultWindowWithinBudget ==
    DefaultOnLongFile =>
        /\ fresponse.startLine = 1
        /\ fresponse.truncated
        /\ fresponse.totalLines = frequest.file.n
        /\ HoldsLines(1, fresponse.endLine)
        /\ IF FirstPageFits THEN fresponse.endLine = MAX_LINES
                            ELSE fresponse.endLine < MAX_LINES

\* C14 witness: the first page of a file of MAX_LINES + ExtraLines lines
C14_Witness ==
    /\ DefaultOnLongFile
    /\ frequest.file.n = MAX_LINES + ExtraLines
    /\ fresponse.endLine = MAX_LINES
    /\ Len(fresponse.content) = MAX_LINES

\* what the per-line truncator is to make of a line: the first MAX_LINE_LENGTH
\* characters and the marker ' [truncated]' for a line longer than that, the
\* line itself otherwise
Shortened(line) ==
    IF line.len > MAX_LINE_LENGTH
    THEN [id |-> line.id, len |-> MAX_LINE_LENGTH + LineMarkerLen, cut |-> TRUE]
    ELSE [id |-> line.id, len |-> line.len, cut |-> FALSE]

LongLines(sel) == {i \in 1..Len(sel) : sel[i].len > MAX_LINE_LENGTH}

\* C15: every selected line longer than MAX_LINE_LENGTH is returned as its first
\* MAX_LINE_LENGTH characters plus ' [truncated]', every other returned line is
\* unchanged, the total-size truncator works on the shortened lines (lines that
\* fit once shortened are all kept), and the note counts the selected lines
\* longer than MAX_LINE_LENGTH.
C15_PerLineTruncator ==
    FileReturned =>
        LET sel == Selected
            short == [i \in 1..Len(sel) |-> Shortened(sel[i])]
        IN /\ Len(fresponse.content) <= Len(sel)
           /\ \A i \in 1..Len(fresponse.content) : fresponse.content[i] = short[i]
           /\ JoinLen(short) <= MAX_CHARACTERS => Len(fresponse.content) = Len(sel)
           /\ NoteCount(fresponse.truncationNote, "lines") = Cardinality(LongLines(sel))

\* C15 witness: long and short lines selected whose raw text exceeds
\* MAX_CHARACTERS, all of them returned because the shortened lines fit
C15_Witness ==
    /\ FileReturned
    /\ LET sel == Selected IN
       /\ LongLines(sel) # {}
       /\ Cardinality(LongLines(sel)) < Len(sel)
       /\ JoinLen(sel) > MAX_CHARACTERS
       /\ Len(fresponse.content) = Len(sel)

\* C16: when the shortened selected lines, joined by one separator each, exceed
\* MAX_CHARACTERS, the content is the longest prefix of them whose joined length
\* is at most MAX_CHARACTERS, endLine is startLine + retained - 1, and the note
\* reports selected - retained dropped lines, at least one.
C16_TotalSizeTruncator ==
    FileReturned =>
        LET sel == Selected
            short == [i \in 1..Len(sel) |-> Shortened(sel[i])]
            retained == Len(fresponse.content)
        IN JoinLen(short) > MAX_CHARACTERS =>
              /\ retained < Len(sel)
              /\ fresponse.content = SubSeq(short, 1, retained)
              /\ JoinLen(SubSeq(short, 1, retained)) <= MAX_CHARACTERS
              /\ JoinLen(SubSeq(short, 1, retained + 1)) > MAX_CHARACTERS
              /\ fresponse.endLine = fresponse.startLine + retained - 1
              /\ NoteCount(fresponse.truncationNote, "chars") = Len(sel) - retained
              /\ NoteCount(fresponse.truncationNote, "chars") >= 1

\* C16 witness: lines of two lengths dropped from a window that starts behind
\* the first line, more than one line retained
C16_Witness ==
    /\ FileReturned
    /\ fresponse.startLine > 1
    /\ frequest.file.a # frequest.file.b
    /\ Len(fresponse.content) > 1
    /\ NoteCount(fresponse.truncationNote, "chars") >= 1

\* The run in which the fetches of every change list complete in list order.
\* run = [total, truncated, omitted]: the counters before the list is mapped.
InOrderFiles(entries, run) ==
    [i \in 1..Len(entries) |->
        IF totalBudgetExceeded(run.total) THEN Placeholder(entries[i])
        ELSE DiffResult(entries[i])]

RECURSIVE InOrderCount(_, _, _)
InOrderCount(entries, n, run) ==
    IF n = 0 THEN run
    ELSE LET before == InOrderCount(entries, n - 1, run)
             r == DiffResult(entries[n])
         IN IF totalBudgetExceeded(run.total)
            THEN [before EXCEPT !.omitted = @ + 1]
            ELSE [total |-> before.total + TextLen(r.patch.text),
                  truncated |-> before.truncated + (IF r.truncated = "true" THEN 1 ELSE 0),
                  omitted |-> before.omitted]

RECURSIVE InOrderCommits(_, _)
InOrderCommits(cs, run) ==
    IF cs = <<>> THEN [commits |-> <<>>, run |-> run]
    ELSE LET rest == InOrderCommits(Tail(cs),
                         InOrderCount(cs[1].changes, Len(cs[1].changes), run))
         IN [commits |-> <<[commitId |-> cs[1].commitId,
                            files |-> InOrderFiles(cs[1].changes, run)]>>
                         \o rest.commits,
             run |-> rest.run]

InOrderResponse ==
    LET zero == [total |-> 0, truncated |-> 0, omitted |-> 0] IN
    IF op = "pr"
    THEN LET run == InOrderCount(remote[1].changes, Len(remote[1].changes), zero)
         IN [kind |-> "ok",
             files |-> InOrderFiles(remote[1].changes, zero),
             truncationNote |-> BuildNote(run.truncated, run.omitted)]
    ELSE IF Len(remote) = 0 THEN [kind |-> "ok", commits |-> <<>>]
    ELSE LET all == InOrderCommits(WithId(remote), zero)
         IN [kind |-> "ok",
             commits |-> all.commits,
             truncationNote |-> BuildNote(all.run.truncated, all.run.omitted)]

\* C17: with includeDiffs set, every run over the same change lists and blob
\* contents returns the entries and the truncationNote of the run whose fetches
\* complete in list order: any two runs return the same response.
C17_SameResponseInEveryOrder ==
    (Returned /\ includeDiffs) => response = InOrderResponse

\* C17 witness: a response with a note and two different patches in one change
\* list, whose fetches completed out of list order
C17_Witness ==
    /\ Returned /\ includeDiffs /\ reordered
    /\ BatchNote # <<>>
    /\ LET xs == ResponseEntries IN
       \E j, k \in 1..Len(xs) :
           /\ xs[j].c = xs[k].c
           /\ IsDiff(xs[j]) /\ IsDiff(xs[k])
           /\ xs[j].file.patch.text # xs[k].file.patch.text

\* C19: without includeDiffs no getBlobContent call is issued and the counters
\* of the budget stay at zero throughout the call; every returned entry has
\* path and changeType only, and the response has no truncationNote.
C19_NoDiffsNoFetch ==
    (op \in {"pr", "lc"} /\ ~includeDiffs) =>
        /\ fetchLog = {}
        /\ totalPatchSize = 0 /\ truncatedPatchCount = 0 /\ omittedPatchCount = 0
        /\ Returned =>
              /\ BatchNote = <<>>
              /\ \A j \in 1..Len(ResponseEntries) :
                     DOMAIN ResponseEntries[j].file = {"path", "changeType"}

\* C19 witness: a response without diffs for commits that changed blobs
C19_Witness ==
    /\ Returned /\ ~includeDiffs /\ op = "lc"
    /\ Len(response.commits) > 1
    /\ \E j \in 1..Len(remote) : \E i \in 1..Len(remote[j].changes) :
           remote[j].commitId # 0 /\ remote[j].changes[i].newId

\* ------------------------------------------------------------------------
\* Properties of getChangeTypeName
\* ------------------------------------------------------------------------
\* the names of the lookup table
ChangeTypeNames == {ChangeTypeTable[c] : c \in DOMAIN ChangeTypeTable}

\* C18: getChangeTypeName returns a name for every code, undefined and codes
\* outside the table included, and never throws; the name is 'unknown' exactly
\* when the code is undefined or is none of the 15 keys of the table.
C18_ChangeTypeNameTotal ==
    (fn = "getChangeTypeName" /\ out # NoResponse) =>
        /\ out.kind = "ok"
        /\ out.value \in ChangeTypeNames \cup {"unknown"}
        /\ Cardinality(DOMAIN ChangeTypeTable) = 15
        /\ (out.value = "unknown")
               <=> (arg = Undefined \/ arg \notin DOMAIN ChangeTypeTable)

\* C18 witness: the name of a combination of two flags (add and edit)
C18_Witness ==
    /\ fn = "getChangeTypeName" /\ out # NoResponse
    /\ arg = 3
    /\ out.value = "unknown"

\* ------------------------------------------------------------------------
\* Properties of searchCode
\* ------------------------------------------------------------------------
\* the content fetches that were started and have not ended
FetchesInFlight == {i \in 1..Len(stasks) : stasks[i] = "fetching"}

\* C20 (as claimed): with includeContent set, at most 10 content fetches are in
\* flight at any time, whatever number of results the search service returns.
C20_FanOutCapped ==
    (spc # "idle" /\ sreq.includeContent) => Cardinality(FetchesInFlight) <= 10

\* ------------------------------------------------------------------------
\* Properties of interleaved batch calls
\* ------------------------------------------------------------------------
\* what a call over the change lists r returns when it runs alone
AloneResponse(o, r) ==
    LET all == InOrderCommits(r, [total |-> 0, truncated |-> 0, omitted |-> 0])
        note == BuildNote(all.run.truncated, all.run.omitted)
    IN IF o = "pr"
       THEN [kind |-> "ok", files |-> all.commits[1].files, truncationNote |-> note]
       ELSE [kind |-> "ok", commits |-> all.commits, truncationNote |-> note]

\* C21: the counters of the budget belong to one call: they are zero when the
\* call maps its first change list, and a call that runs interleaved with
\* another returns the entries and the note it returns when it runs alone.
C21_CountersPerCall ==
    \A k \in 1..Len(calls) :
        /\ (calls[k].pc = "commit" /\ calls[k].ci = 1) =>
              /\ calls[k].totalPatchSize = 0
              /\ calls[k].truncatedPatchCount = 0
              /\ calls[k].omittedPatchCount = 0
        /\ calls[k].pc = "done" =>
              calls[k].response = AloneResponse(calls[k].op, calls[k].remote)

\* C21 witness: a call that mapped a change list while the other call, still
\* running, had used up its own budget, and that returned patches
C21_Witness ==
    \E k \in 1..Len(calls) :
        /\ calls[k].pc = "done" /\ calls[k].sawOther
        /\ calls[3 - k].omittedPatchCount > 0
        /\ calls[k].omittedPatchCount = 0

\* ------------------------------------------------------------------------
\* Properties of the failures
\* ------------------------------------------------------------------------
\* the classes derived from AzureDevOpsError, that class included
TypedErrors ==
    {"AzureDevOpsError", "AzureDevOpsResourceNotFoundError", "AzureDevOpsValidationError",
     "AzureDevOpsAuthenticationError", "AzureDevOpsPermissionError"}

\* C22 (as claimed): a batch call or a file read that fails returns no partial
\* response and throws one error of a class derived from AzureDevOpsError;
\* getFileContent throws AzureDevOpsResourceNotFoundError for every cause.
C22_TypedErrorOnFailure ==
    /\ pc = "failed" =>
          /\ response.kind = "error"
          /\ response.class \in TypedErrors
    /\ (fop = "file" /\ fpc = "failed") =>
          /\ fresponse.kind = "error"
          /\ fresponse.class = "AzureDevOpsResourceNotFoundError"

\* ------------------------------------------------------------------------
\* Properties of listRepositories
\* ------------------------------------------------------------------------
NotDisabled(repo) == repo.isDisabled # "true"

\* C23: listRepositories returns the repositories whose isDisabled is not true,
\* in the remote's order and without the isDisabled field; an AzureDevOpsError
\* is rethrown as it is, another error is rethrown as an Error with the prefix
\* 'Failed to list repositories: '.
C23_ListRepositories ==
    (fn = "listRepositories" /\ out # NoResponse) =>
        CASE arg.fault = "none" ->
               LET kept == SelectSeq(arg.repositories, NotDisabled) IN
               /\ out.kind = "ok"
               /\ Len(out.value) = Len(kept)
               /\ \A j \in 1..Len(kept) :
                      /\ out.value[j].id = kept[j].id
                      /\ "isDisabled" \notin DOMAIN out.value[j]
          [] arg.fault = "typed" ->
               out = [kind |-> "error", class |-> "AzureDevOpsError", wrapped |-> FALSE]
          [] OTHER ->
               out = [kind |-> "error", class |-> "Error", wrapped |-> TRUE]

\* C23 witness: a disabled repository between a repository without isDisabled
\* and an enabled one, both of which are returned
C23_Witness ==
    /\ fn = "listRepositories" /\ out # NoResponse /\ arg.fault = "none"
    /\ Len(arg.repositories) = 3
    /\ arg.repositories[1].isDisabled = "absent"
    /\ arg.repositories[2].isDisabled = "true"
    /\ arg.repositories[3].isDisabled = "false"
    /\ Len(out.value) = 2

\* ------------------------------------------------------------------------
\* Properties of the coding-agent server
\* ------------------------------------------------------------------------
\* C24 (as claimed): a CallTool request is dispatched to a feature handler only
\* for a tool that ListTools returns; a request for a tool that is not listed
\* is answered with the 'Unknown tool' error response.
C24_DispatchOnlyListed ==
    (fn = "CallTool" /\ out # NoResponse /\ arg.connects) =>
        /\ out.kind = "dispatched" => arg.name \in ListedTools
        /\ arg.name \notin ListedTools =>
              out = [kind |-> "errorResponse", cause |-> "Unknown tool"]

\* C25: every stream opened for a stream-to-text conversion has its handle
\* released once the read has completed or failed, and the promise of the
\* conversion is settled then: resolved with the concatenated chunks after
\* 'end', rejected after 'error'.
C25_StreamHandleReleased ==
    (stream # NoResponse /\ stream.state # "open") =>
        /\ stream.handle = "released"
        /\ stream.state = "ended" =>
               stream.promise = "resolved" /\ stream.text = BufferConcat(stream.chunks)
        /\ stream.state = "errored" => stream.promise = "rejected"

\* the commit whose change list is being mapped
CurrentCommit == IF op = "pr" THEN 1 ELSE ci

\* the entries of the change list being mapped, with what each has resolved to
CurrentEntries ==
    [i \in 1..Len(results) |-> [c |-> CurrentCommit, i |-> i, file |-> results[i]]]

\* the budget checks made for entry i of commit c
GatesOf(c, i) == {k \in DOMAIN gates : gates[k].c = c /\ gates[k].i = i}

\* total length of the patches emitted so far
EmittedSoFar ==
    IF op = "pr" THEN SumPatches(CurrentEntries, Len(results))
    ELSE LET pushed == FlatCommits(commitsWithContent) IN
         SumPatches(pushed, Len(pushed))
         + (IF pc = "fetching" THEN SumPatches(CurrentEntries, Len(results)) ELSE 0)

\* C26: with includeDiffs set every entry checks the budget exactly once and
\* no blob is fetched for an entry without a check; the entry is the
\* placeholder (truncated, nothing fetched, counted as omitted) exactly when
\* its check read a totalPatchSize of at least MAX_TOTAL_PATCH_SIZE; every other
\* entry adds the length of its final patch once, so totalPatchSize never
\* decreases and equals the total length of the non-placeholder patches
\* emitted, whatever the order in which the fetches complete.
C26_GateOncePerEntry ==
    /\ [](  (includeDiffs /\ pc # "failed") =>
              LET cur == CurrentEntries IN
              /\ \A i \in 1..(IF pc = "fetching" \/ Returned THEN Len(cur) ELSE 0) :
                     /\ Cardinality(GatesOf(CurrentCommit, i)) = 1
                     /\ \A k \in GatesOf(CurrentCommit, i) :
                            IF totalBudgetExceeded(gates[k].seen)
                            THEN /\ IsPlaceholder(cur[i])
                                 /\ cur[i].file.truncated = "true"
                                 /\ ~Fetched(cur[i])
                            ELSE task[i] = "resolved" => IsDiff(cur[i])
              /\ \A f \in fetchLog :
                     \E k \in GatesOf(f[1], f[2]) : ~totalBudgetExceeded(gates[k].seen)
              /\ \A a, b \in DOMAIN gates :
                     (gates[a].c = gates[b].c /\ gates[a].i = gates[b].i) => a = b
              /\ omittedPatchCount =
                     Cardinality({k \in DOMAIN gates : totalBudgetExceeded(gates[k].seen)})
              /\ totalPatchSize = EmittedSoFar)
    /\ [][totalPatchSize' >= totalPatchSize]_vars

\* a response with placeholders and patches whose fetches completed out of order
C26_Witness ==
    /\ Returned /\ includeDiffs /\ reordered
    /\ LET xs == ResponseEntries IN
       /\ \E j \in 1..Len(xs) : IsPlaceholder(xs[j]) /\ ~Fetched(xs[j])
       /\ \E j \in 1..Len(xs) : IsDiff(xs[j])
       /\ totalPatchSize = SumPatches(xs, Len(xs))
       /\ omittedPatchCount > 0

\* text a is the text b cut off after TextLen(a) characters
IsPrefixOf(a, b) ==
    /\ Len(a) <= Len(b)
    /\ \A k \in 1..(Len(a) - 1) : a[k] = b[k]
    /\ a[Len(a)] <= b[Len(a)]

\* the text is some text followed by the truncation marker of a patch
EndsWithPatchMarker(t) ==
    /\ Len(t) >= 2
    /\ t[Len(t)] = PatchMarkerLen

\* C27: a patch of at most MAX_PATCH_LENGTH characters is emitted unchanged and
\* its entry is not marked truncated; a longer patch is emitted as its first
\* MAX_PATCH_LENGTH characters followed by the marker and its entry is marked
\* truncated; no emitted patch is longer than MAX_PATCH_LENGTH plus the marker.
C27_TruncatePatch ==
    (includeDiffs /\ pc = "fetching") =>
        \A i \in 1..Len(results) :
            IsDiff(CurrentEntries[i]) =>
                LET raw == createTwoFilesPatch(changeEntries[i])
                    file == results[i]
                    text == file.patch.text IN
                /\ TextLen(text) <= MAX_PATCH_LENGTH + TextLen(PatchMarker)
                /\ (file.truncated = "true") <=> (TextLen(raw) > MAX_PATCH_LENGTH)
                /\ file.truncated \in {"true", "undefined"}
                /\ IF TextLen(raw) <= MAX_PATCH_LENGTH
                   THEN text = raw
                   ELSE /\ EndsWithPatchMarker(text)
                        /\ TextLen(text) = MAX_PATCH_LENGTH + TextLen(PatchMarker)
                        /\ TextLen(SubSeq(text, 1, Len(text) - 1)) = MAX_PATCH_LENGTH
                        /\ IsPrefixOf(SubSeq(text, 1, Len(text) - 1), raw)

\* one change list with a patch of exactly MAX_PATCH_LENGTH characters, emitted
\* whole, and a longer one, emitted cut
C27_Witness ==
    /\ includeDiffs /\ pc = "fetching" /\ AllResolved
    /\ \E i \in 1..Len(results) :
           /\ IsDiff(CurrentEntries[i])
           /\ TextLen(createTwoFilesPatch(changeEntries[i])) = MAX_PATCH_LENGTH
           /\ results[i].truncated = "undefined"
    /\ \E i \in 1..Len(results) :
           /\ IsDiff(CurrentEntries[i])
           /\ TextLen(createTwoFilesPatch(changeEntries[i])) > MAX_PATCH_LENGTH
           /\ results[i].truncated = "true"

\* total length of the patches of the first n commits of a response
PatchesOfFirst(cs, n) ==
    LET xs == FlatCommits(SubSeq(cs, 1, n)) IN SumPatches(xs, Len(xs))

\* C28: listCommits asks for the change list of a commit only when every diff
\* of the commit before has resolved, and one budget runs through the commits
\* of a response: a file of a commit is a placeholder exactly when the patches
\* of all earlier commits total at least MAX_TOTAL_PATCH_SIZE, so a commit has
\* placeholders only or none.
C28_CommitsInSequence ==
    /\ []((op = "lc" /\ includeDiffs /\ Returned) =>
            \A j \in 1..Len(response.commits) :
               LET files == response.commits[j].files
                   before == PatchesOfFirst(response.commits, j - 1) IN
               /\ \A k \in 1..Len(files) :
                      files[k].patch.omitted <=> before >= MAX_TOTAL_PATCH_SIZE
               /\ \/ \A k \in 1..Len(files) : files[k].patch.omitted
                  \/ \A k \in 1..Len(files) : ~files[k].patch.omitted)
    /\ [][(op = "lc" /\ (gates' # gates \/ ci' # ci)) =>
             /\ AllResolved
             /\ totalPatchSize = PatchesOfFirst(commitsWithContent, Len(commitsWithContent))
                                 + (IF pc = "fetching"
                                    THEN SumPatches(CurrentEntries, Len(results)) ELSE 0)]_vars

\* a response of two commits: the patches of the first use up the budget, in an
\* order other than list order, and the file of the second is a placeholder
C28_Witness ==
    /\ op = "lc" /\ includeDiffs /\ Returned /\ reordered
    /\ Len(response.commits) = 2
    /\ \A k \in 1..Len(response.commits[1].files) : ~response.commits[1].files[k].patch.omitted
    /\ PatchesOfFirst(response.commits, 1) >= MAX_TOTAL_PATCH_SIZE
    /\ Len(response.commits[2].files) = 1
    /\ response.commits[2].files[1].patch.omitted

\* C29: a 'remove' call that succeeds has removed an ArtifactLink relation
\* whose url is the artifact URL of the call, whatever other clients did to the
\* relations between the read and the update.
C29_RemovesOnlyItsLink ==
    (lk # NoResponse /\ lk.operation = "remove" /\ lk.pc = "done") =>
        /\ lk.effect.op = "remove"
        /\ lk.effect.relation.rel = "ArtifactLink"
        /\ lk.effect.relation.url = ArtifactUrl(lk.kind, "target")

\* C30: a link call that fails has changed nothing at the work item: a missing
\* workItemId, repositoryId or branch name / commit sha fails it before any
\* remote call; a 'remove' on a work item without relations or without the
\* link fails with an AzureDevOpsError and without an updateWorkItem; and
\* every error raised after the validation is an AzureDevOpsError.
C30_FailureChangesNothing ==
    (lk # NoResponse /\ lk.pc = "failed") =>
        /\ lk.effect.op = "none"
        /\ wi.others = 0 => wi.relations = wi.original
        /\ lk.missing # "none" => lk.remoteCalls = <<>> /\ lk.cause = "validation"
        /\ lk.cause \in {"noRelations", "linkNotFound"} =>
               /\ lk.error = "AzureDevOpsError"
               /\ \A k \in 1..Len(lk.remoteCalls) : lk.remoteCalls[k] # "updateWorkItem"
        /\ lk.cause # "validation" =>
               lk.error \in {"AzureDevOpsError", "AzureDevOpsResourceNotFoundError"}
        /\ (lk.operation = "remove" /\ lk.missing = "none" /\ lk.fault = "none"
              /\ wi.others = 0
              /\ findIndex(wi.relations, ArtifactUrl(lk.kind, "target")) = -1)
               => lk.cause \in {"noRelations", "linkNotFound"}

\* a 'remove' that failed because the work item holds relations but not the link
C30_Witness ==
    /\ lk # NoResponse /\ lk.pc = "failed"
    /\ lk.operation = "remove"
    /\ lk.cause = "linkNotFound"
    /\ Len(wi.relations) > 0
    /\ lk.remoteCalls = <<"getWorkItemTrackingApi", "getWorkItem">>

====
